---- MODULE Spec2Model ----
(***************************************************************************)
(* fs-api: REST control surface over the FreeSWITCH event socket.          *)
(*                                                                         *)
(* A Go string is modelled as a sequence of symbols.  A symbol is a TLA+    *)
(* string that the code never splits: one character (" ", ",", "@", "|")   *)
(* or an atomic word ("api", "uuid_kill", "u1").  Concatenation is \o, so   *)
(* fmt.Sprintf and strings.Builder are modelled by what they build.        *)
(***************************************************************************)
EXTENDS Integers, Sequences, FiniteSets, TLC

VARIABLES
    pc,         \* position of the request being served
    hdr,        \* value of the X-Allowed-Contexts header of the request
    auth,       \* contextAuth stored in the request context by the middleware
    req,        \* handler, path variables and decoded body of the request
    callInfo,   \* CallContextInfo returned by the last getCallContext
    lookups,    \* rows of each "show calls as json" reply parsed by the request
    issued,     \* commands handed to ESLClient.SendCommand by the request
    sent,       \* commands transmitted on a connection by the request
    errs,       \* error SendCommand returned for each command of issued
    local,      \* local variables a handler keeps between two commands
    resp,       \* response written by the handler
    \* the ESLgoClient shared by all requests (esl.go)
    mu,         \* holder of the session mutex esl.mu
    conn,       \* esl.conn: the cached connection handle, 0 for nil
    live,       \* connection handles dialed and not yet closed
    dials,      \* number of eslgo.Dial calls made so far
    closeCalls, \* per handle, the number of conn.Close() calls made by esl.go
    tpc,        \* per caller, the position inside SendCommand
    tconn,      \* per caller, the handle getConnection returned to it
    tres,       \* per caller, the result SendCommand returns, until the handler takes it
    cb,         \* per handle, the progress of its disconnect callback
    cpc,        \* position of the shutdown path inside Close
    \* the reply parsers applied on their own (middleware.go)
    input,      \* text handed to a parser
    output,     \* the parser applied to input and what it returned
    \* the bearer-token gate (bearerAuthMiddleware)
    allowedTokens,  \* the tokens the server is configured with
    remoteAddr,     \* r.RemoteAddr of the request
    authorization   \* value of the Authorization header of the request

hvars == <<pc, hdr, auth, req, callInfo, lookups, issued, sent, errs, local, resp>>

evars == <<mu, conn, live, dials, closeCalls, tpc, tconn, tres, cb, cpc>>

pvars == <<input, output>>

bvars == <<allowedTokens, remoteAddr, authorization>>

vars == <<hvars, evars, pvars, bvars>>

----------------------------------------------------------------------------
(* Bounds of the model *)

MaxCalls == 2

NumCallers == 2

MaxHdrLen == 3

MaxDials == 2

MaxLines == 3

----------------------------------------------------------------------------
(* package strings *)

Whitespace == {" ", "\t", "\n", "\r"}

Range(s) == {s[i] : i \in 1..Len(s)}

RECURSIVE TrimLeft(_)
TrimLeft(s) == IF s # <<>> /\ Head(s) \in Whitespace THEN TrimLeft(Tail(s)) ELSE s

RECURSIVE TrimRight(_)
TrimRight(s) ==
    IF s # <<>> /\ s[Len(s)] \in Whitespace
    THEN TrimRight(SubSeq(s, 1, Len(s) - 1))
    ELSE s

TrimSpace(s) == TrimRight(TrimLeft(s))

\* strings.Index for a one-symbol separator, 1-based, 0 when absent
IndexSym(s, c) ==
    IF \E i \in 1..Len(s) : s[i] = c
    THEN CHOOSE i \in 1..Len(s) : s[i] = c /\ \A j \in 1..(i - 1) : s[j] # c
    ELSE 0

RECURSIVE Split(_, _)
Split(s, c) ==
    LET i == IndexSym(s, c)
    IN  IF i = 0 THEN <<s>>
        ELSE <<SubSeq(s, 1, i - 1)>> \o Split(SubSeq(s, i + 1, Len(s)), c)

RECURSIVE SplitN(_, _, _)
SplitN(s, c, n) ==
    LET i == IndexSym(s, c)
    IN  IF n <= 1 \/ i = 0 THEN <<s>>
        ELSE <<SubSeq(s, 1, i - 1)>> \o SplitN(SubSeq(s, i + 1, Len(s)), c, n - 1)

HasPrefix(s, p) == Len(s) >= Len(p) /\ SubSeq(s, 1, Len(p)) = p

\* strings.Index for a substring, 1-based, 0 when absent
Index(s, sub) ==
    LET hits == {i \in 1..(Len(s) - Len(sub) + 1) : SubSeq(s, i, i + Len(sub) - 1) = sub}
    IN  IF hits = {} THEN 0 ELSE CHOOSE i \in hits : \A j \in hits : i <= j

Contains(s, sub) == Index(s, sub) # 0

RECURSIVE Join(_, _)
Join(ss, sep) ==
    IF ss = <<>> THEN <<>>
    ELSE IF Len(ss) = 1 THEN ss[1]
    ELSE ss[1] \o sep \o Join(Tail(ss), sep)

----------------------------------------------------------------------------
(* auth.go: scope derivation and the accessors of the request context *)

WILDCARD_CONTEXT == <<"*">>

NoAuth == [Set |-> FALSE, Contexts |-> <<>>, Unrestricted |-> FALSE]

\* the loop of contextAuthMiddleware over the comma-separated tokens
RECURSIVE ScanContexts(_, _)
ScanContexts(contexts, allowedContexts) ==
    IF contexts = <<>>
    THEN [Set |-> TRUE, Contexts |-> allowedContexts, Unrestricted |-> FALSE]
    ELSE LET trimmed == TrimSpace(Head(contexts))
         IN  IF trimmed = <<>> THEN ScanContexts(Tail(contexts), allowedContexts)
             ELSE IF trimmed = WILDCARD_CONTEXT
                  THEN [Set |-> TRUE, Contexts |-> allowedContexts, Unrestricted |-> TRUE]
                  ELSE ScanContexts(Tail(contexts), Append(allowedContexts, trimmed))

\* a variant of DeriveAuth that knows the wildcard only as the whole
\* declaration and takes it for a tenant when it is one token among others
DeriveAuthWildcardAlone(allowedContextsHeader) ==
    IF allowedContextsHeader = <<>> \/ TrimSpace(allowedContextsHeader) = WILDCARD_CONTEXT
    THEN [Set |-> TRUE, Contexts |-> <<>>, Unrestricted |-> TRUE]
    ELSE [Set |-> TRUE,
          Contexts |-> SelectSeq([i \in 1..Len(Split(allowedContextsHeader, ",")) |->
                                     TrimSpace(Split(allowedContextsHeader, ",")[i])],
                                 LAMBDA t : t # <<>>),
          Unrestricted |-> FALSE]

\* a variant of DeriveAuth in which a declaration that names no tenant leaves
\* the request unrestricted
DeriveAuthEmptyOpen(allowedContextsHeader) ==
    IF allowedContextsHeader = <<>>
       \/ ScanContexts(Split(allowedContextsHeader, ","), <<>>).Contexts = <<>>
    THEN [Set |-> TRUE, Contexts |-> <<>>, Unrestricted |-> TRUE]
    ELSE ScanContexts(Split(allowedContextsHeader, ","), <<>>)

DeriveAuth(allowedContextsHeader) ==
    IF allowedContextsHeader = <<>>
    THEN [Set |-> TRUE, Contexts |-> <<>>, Unrestricted |-> TRUE]
    ELSE ScanContexts(Split(allowedContextsHeader, ","), <<>>)

isUnrestrictedAccess(a) == IF a.Set THEN a.Unrestricted ELSE TRUE

getAllowedContexts(a) == IF a.Set THEN a.Contexts ELSE <<>>

----------------------------------------------------------------------------
(* middleware.go: parsers of the switch's callcenter_config replies *)

Get(row, k) == IF k \in DOMAIN row THEN row[k] ELSE <<>>

\* a variant of MakeRow in which the first of two equal header names keeps
\* its field
MakeRowFirstWins(headers, fields) ==
    [h \in Range(headers) |->
        LET i == CHOOSE j \in 1..Len(headers) :
                     headers[j] = h /\ \A k \in 1..(j - 1) : headers[k] # h
        IN  IF i <= Len(fields) THEN TrimSpace(fields[i]) ELSE <<>>]

\* the index range loop "for i, h := range headers": a later duplicate of a
\* header name overwrites the earlier one
MakeRow(headers, fields) ==
    [h \in Range(headers) |->
        LET i == CHOOSE j \in 1..Len(headers) :
                     headers[j] = h /\ \A k \in (j + 1)..Len(headers) : headers[k] # h
        IN  IF i <= Len(fields) THEN TrimSpace(fields[i]) ELSE <<>>]

TrimAll(ss) == [i \in 1..Len(ss) |-> TrimSpace(ss[i])]

RECURSIVE ParseLines(_, _, _)
ParseLines(lines, headerParsed, headers) ==
    IF lines = <<>> THEN <<>>
    ELSE LET line == TrimSpace(Head(lines))
         IN  IF line = <<>> \/ HasPrefix(line, <<"+OK">>)
             THEN ParseLines(Tail(lines), headerParsed, headers)
             ELSE IF ~headerParsed
                  THEN ParseLines(Tail(lines), TRUE, TrimAll(Split(line, "|")))
                  ELSE <<MakeRow(headers, Split(line, "|"))>>
                           \o ParseLines(Tail(lines), headerParsed, headers)

ParsePipeDelimited(raw) == ParseLines(Split(raw, "\n"), FALSE, <<>>)

Digits == {"0", "1", "2", "3", "4", "5", "6", "7", "8", "9"}

DigitVal(d) == CASE d = "0" -> 0 [] d = "1" -> 1 [] d = "2" -> 2 [] d = "3" -> 3
                 [] d = "4" -> 4 [] d = "5" -> 5 [] d = "6" -> 6 [] d = "7" -> 7
                 [] d = "8" -> 8 [] d = "9" -> 9

RECURSIVE DecVal(_)
DecVal(ds) == IF ds = <<>> THEN 0
              ELSE 10 * DecVal(SubSeq(ds, 1, Len(ds) - 1)) + DigitVal(ds[Len(ds)])

\* strconv.Atoi: optional sign, then at least one digit and nothing else
Atoi(s) ==
    LET signed == s # <<>> /\ Head(s) \in {"+", "-"}
        ds     == IF signed THEN Tail(s) ELSE s
    IN  IF ds # <<>> /\ \A i \in 1..Len(ds) : ds[i] \in Digits
        THEN [ok |-> TRUE,
              n  |-> IF signed /\ Head(s) = "-" THEN 0 - DecVal(ds) ELSE DecVal(ds)]
        ELSE [ok |-> FALSE, n |-> 0]

\* a variant of ScanCount that gives up at the first line that is neither
\* skipped nor an integer
ScanCountStopAtText(lines) ==
    LET kept == SelectSeq(lines, LAMBDA l : TrimSpace(l) # <<>>
                                               /\ ~HasPrefix(TrimSpace(l), <<"+OK">>))
    IN  IF kept = <<>> THEN [ok |-> FALSE, n |-> 0] ELSE Atoi(TrimSpace(kept[1]))

RECURSIVE ScanCount(_)
ScanCount(lines) ==
    IF lines = <<>> THEN [ok |-> FALSE, n |-> 0]
    ELSE LET line == TrimSpace(Head(lines))
         IN  IF line = <<>> \/ HasPrefix(line, <<"+OK">>) THEN ScanCount(Tail(lines))
             ELSE IF Atoi(line).ok THEN Atoi(line) ELSE ScanCount(Tail(lines))

ParsePlainCount(raw) == ScanCount(Split(TrimSpace(raw), "\n"))

DomainNameKey == <<"d", "o", "m", "a", "i", "n", "_", "n", "a", "m", "e", "=">>

\* a variant of ContactDelims without the two quotes
ContactDelimsNoQuotes == {",", " ", "}"}

ContactDelims == {",", " ", "}", "'", "\""}

ExtractDomainFromContact(contact) ==
    LET idx == Index(contact, DomainNameKey)
    IN  IF idx = 0 THEN <<>>
        ELSE LET rest == SubSeq(contact, idx + Len(DomainNameKey), Len(contact))
                 ends == {i \in 1..Len(rest) : rest[i] \in ContactDelims}
             IN  IF ends = {} THEN rest
                 ELSE SubSeq(rest, 1, (CHOOSE i \in ends : \A j \in ends : i <= j) - 1)

----------------------------------------------------------------------------
(* cc_handlers.go: tenant of a queue or tier name, and the list filters *)

extractDomain(nameAtDomain) ==
    LET parts == SplitN(nameAtDomain, "@", 2)
    IN  IF Len(parts) = 2 THEN parts[2] ELSE <<>>

isDomainAllowed(nameAtDomain, allowedContexts) ==
    LET domain == extractDomain(nameAtDomain)
    IN  /\ domain # <<>>
        /\ \E i \in 1..Len(allowedContexts) : domain = allowedContexts[i]

\* a variant of filterByDomain that keeps the rows whose name has no domain
filterByDomainKeepBare(rows, fieldName, allowedContexts) ==
    SelectSeq(rows, LAMBDA row :
        \/ extractDomain(Get(row, fieldName)) = <<>>
        \/ isDomainAllowed(Get(row, fieldName), allowedContexts))

filterByDomain(rows, fieldName, allowedContexts) ==
    SelectSeq(rows, LAMBDA row : isDomainAllowed(Get(row, fieldName), allowedContexts))

filterAgentsByDomain(rows, allowedContexts) ==
    SelectSeq(rows, LAMBDA row :
        LET domain == ExtractDomainFromContact(Get(row, <<"contact">>))
        IN  /\ domain # <<>>
            /\ \E i \in 1..Len(allowedContexts) : domain = allowedContexts[i])

----------------------------------------------------------------------------
(* Values exchanged with the switch.  A reply string is either plain text  *)
(* or a JSON document; encoding/json is not re-implemented, a document is  *)
(* carried in decoded form and json.Unmarshal fails on plain text.         *)

NoDoc == [rows |-> <<>>, chan |-> <<>>]

Text(t) == [kind |-> "text", text |-> t, doc |-> NoDoc]

Json(d) == [kind |-> "json", text |-> <<>>, doc |-> d]

EmptyString == Text(<<>>)

IsEmpty(s) == s.kind = "text" /\ s.text = <<>>

\* JSON document of "show calls as json"
CallsDoc(rows) == [rows |-> rows, chan |-> <<>>]

\* JSON document of "uuid_dump <uuid> json": the channel with that Unique-ID
DumpDoc(uuid) == [rows |-> <<>>, chan |-> uuid]

----------------------------------------------------------------------------
(* esl.go: SendCommand as one call made by one request.  The outcome o of  *)
(* the dial and of the transmission is the environment's choice.           *)

DialFailed(detail) == [class |-> "dialfail", detail |-> detail, replyText |-> <<>>, body |-> EmptyString]

SendFailed(detail) == [class |-> "sendfail", detail |-> detail, replyText |-> <<>>, body |-> EmptyString]

Reply(replyText, body) == [class |-> "reply", detail |-> <<>>, replyText |-> replyText, body |-> body]

NoError == <<>>

\* a variant of SendCommand that also takes a body starting with -ERR for a
\* remote error
SendCommandBodyMarker(cmd, o) ==
    LET parts == SplitN(cmd, " ", 3)
    IN  IF o.class = "dialfail"
        THEN [out |-> EmptyString, transmitted |-> FALSE,
              err |-> <<"ESL connection failed", ":", " ">> \o o.detail]
        ELSE IF Len(parts) < 2
        THEN [out |-> EmptyString, transmitted |-> FALSE,
              err |-> <<"invalid command format", ":", " ">> \o cmd]
        ELSE IF parts[1] # <<"api">>
        THEN [out |-> EmptyString, transmitted |-> FALSE,
              err |-> <<"unsupported command type", ":", " ">> \o parts[1]]
        ELSE IF o.class = "sendfail"
        THEN [out |-> EmptyString, transmitted |-> TRUE,
              err |-> <<"ESL command failed", ":", " ">> \o o.detail]
        ELSE IF HasPrefix(o.replyText, <<"-ERR">>)
                \/ (o.body.kind = "text" /\ HasPrefix(o.body.text, <<"-ERR">>))
        THEN [out |-> Text(o.replyText), transmitted |-> TRUE,
              err |-> <<"ESL error", ":", " ">> \o o.replyText]
        ELSE IF ~IsEmpty(o.body)
        THEN [out |-> o.body, transmitted |-> TRUE, err |-> NoError]
        ELSE [out |-> Text(o.replyText), transmitted |-> TRUE, err |-> NoError]

SendCommand(cmd, o) ==
    LET parts == SplitN(cmd, " ", 3)
    IN  IF o.class = "dialfail"
        THEN [out |-> EmptyString, transmitted |-> FALSE,
              err |-> <<"ESL connection failed", ":", " ">> \o o.detail]
        ELSE IF Len(parts) < 2
        THEN [out |-> EmptyString, transmitted |-> FALSE,
              err |-> <<"invalid command format", ":", " ">> \o cmd]
        ELSE IF parts[1] # <<"api">>
        THEN [out |-> EmptyString, transmitted |-> FALSE,
              err |-> <<"unsupported command type", ":", " ">> \o parts[1]]
        ELSE IF o.class = "sendfail"
        THEN [out |-> EmptyString, transmitted |-> TRUE,
              err |-> <<"ESL command failed", ":", " ">> \o o.detail]
        ELSE IF HasPrefix(o.replyText, <<"-ERR">>)
        THEN [out |-> Text(o.replyText), transmitted |-> TRUE,
              err |-> <<"ESL error", ":", " ">> \o o.replyText]
        ELSE IF ~IsEmpty(o.body)
        THEN [out |-> o.body, transmitted |-> TRUE, err |-> NoError]
        ELSE [out |-> Text(o.replyText), transmitted |-> TRUE, err |-> NoError]

\* a variant of getErrorStatusCode that answers 503 to a failed transmission
\* as well
getErrorStatusCodeTransport(err) ==
    IF err = NoError THEN 200
    ELSE IF Contains(err, <<"ESL connection failed">>) \/ Contains(err, <<"ESL command failed">>)
    THEN 503
    ELSE IF Contains(err, <<"ESL error">>) \/ Contains(err, <<"-ERR">>) THEN 502
    ELSE 500

\* handlers.go
getErrorStatusCode(err) ==
    IF err = NoError THEN 200
    ELSE IF Contains(err, <<"ESL connection failed">>) THEN 503
    ELSE IF Contains(err, <<"ESL error">>) \/ Contains(err, <<"-ERR">>) THEN 502
    ELSE 500

\* failures of the transport, and the switch's error replies
Failures == {DialFailed(<<"connection refused">>), SendFailed(<<"context deadline exceeded">>)}

ErrReplies == {Reply(<<"-ERR", " ", "no reply">>, EmptyString)}

\* every outcome of one SendCommand whose successful replies are bodies
Outcomes(bodies) == Failures \cup ErrReplies \cup {Reply(<<>>, b) : b \in bodies}

----------------------------------------------------------------------------
(* Inputs: tenants, declarations, identifiers and the switch's call rows *)

TenantA == <<"a">>

TenantB == <<"b">>

TenantAB == <<"a", "b">>

\* X-Allowed-Contexts declarations
Headers ==
    { <<>>,                              \* header absent
      <<"*">>,
      <<"a">>,
      <<"a", ",", "b">>,
      <<" ", "a", " ", ",", ",">>,
      <<"a", ",", " ", "*">>,
      <<",">>,
      <<"a", "b">> }

U1 == <<"u1">>

U2 == <<"u2">>

U3 == <<"u3">>

BadUUID == <<"not-a-uuid">>

\* helpers.go: validateUUID accepts what uuid.Parse accepts
validateUUID(uuidStr) == uuidStr \in {U1, U2, U3}

Row(uuid, b_uuid, accountcode) == [uuid |-> uuid, b_uuid |-> b_uuid, accountcode |-> accountcode]

NoRow == Row(<<>>, <<>>, <<>>)

CallRows == { Row(U1, U2, TenantA), Row(U3, <<>>, TenantB),
              Row(U1, <<>>, TenantB), Row(U3, <<>>, TenantAB),
              Row(U2, <<>>, TenantB) }

\* call lists of the switch: at most MaxCalls rows, one row per call
CallLists ==
    {l \in UNION {[1..n -> CallRows] : n \in 0..MaxCalls} :
        \A i, j \in 1..Len(l) : i # j => l[i].uuid # l[j].uuid}

\* replies of the switch to "show calls as json"
CallsReplies == {Json(CallsDoc(l)) : l \in CallLists} \cup {Text(<<"garbage">>)}

----------------------------------------------------------------------------
(* The request, its response and the initial state *)

NoCallInfo == [UUID |-> <<>>, AccountCode |-> <<>>, Found |-> FALSE]

NoReq ==
    [handler |-> "none", bodyOk |-> TRUE,
     uuid |-> <<>>, uuid_b |-> <<>>,
     cause |-> <<>>, destination |-> <<>>, leg |-> <<>>, dialplan |-> <<>>,
     context |-> <<>>, action |-> <<>>, filename |-> <<>>, digits |-> <<>>,
     duration |-> 0,
     queue |-> <<>>, agent |-> <<>>, domain |-> <<>>, key |-> <<>>, value |-> <<>>,
     name |-> <<>>, type |-> <<>>, level |-> <<>>, position |-> <<>>, status |-> <<>>,
     aleg |-> <<>>, bleg |-> <<>>, caller_id_name |-> <<>>, caller_id_number |-> <<>>,
     timeout_sec |-> 0, channel_variables |-> <<>>]

NoLeg == [present |-> FALSE, uuid |-> <<>>, null |-> TRUE, details |-> NoDoc]

\* JSON values of the status document: null, a string, or an integer
\* literal n = hi * 10^8 + lo (two parts, so that literals beyond 2^53 fit)
JNull == [t |-> "null", s |-> <<>>, hi |-> 0, lo |-> 0]

JString(str) == [t |-> "string", s |-> str, hi |-> 0, lo |-> 0]

JNumber(h, l) == [t |-> "number", s |-> <<>>, hi |-> h, lo |-> l]

NoResp ==
    [status |-> 0, kind |-> "none", message |-> <<>>,
     row_count |-> 0, rows |-> <<>>, count |-> 0,
     call_info |-> NoRow, aleg |-> NoLeg, bleg |-> NoLeg, data |-> JNull]

\* respondError
respondError(message, statusCode) ==
    [NoResp EXCEPT !.status = statusCode, !.kind = "error", !.message = message]

\* respondSuccess
respondSuccess(message) ==
    [NoResp EXCEPT !.status = 200, !.kind = "message", !.message = message]

\* response is the reply string a list or count handler got from sendCCCommand
NoLocal ==
    [aLegUUID |-> <<>>, bLegUUID |-> <<>>, aLegDetails |-> NoDoc, response |-> <<>>,
     fsResponse |-> EmptyString]

Callers == 1..NumCallers

Handles == 1..MaxDials

Free == <<"free", 0>>

\* the server after construction, before any request
InitServer ==
    /\ pc = "idle"
    /\ hdr = <<>>
    /\ auth = NoAuth
    /\ req = NoReq
    /\ callInfo = NoCallInfo
    /\ lookups = <<>>
    /\ issued = <<>>
    /\ sent = <<>>
    /\ errs = <<>>
    /\ local = NoLocal
    /\ resp = NoResp
    /\ mu = Free
    /\ conn = 0
    /\ live = {}
    /\ dials = 0
    /\ closeCalls = [h \in Handles |-> 0]
    /\ tpc = [t \in Callers |-> "idle"]
    /\ tconn = [t \in Callers |-> 0]
    /\ tres = [t \in Callers |-> "none"]
    /\ cb = [h \in Handles |-> "none"]
    /\ cpc = "idle"

\* no parser applied
NoOutput == [fn |-> "none", rows |-> <<>>, ok |-> FALSE, n |-> 0, domain |-> <<>>]

\* no token configured and no request at the gate
NoGate ==
    /\ allowedTokens = <<>>
    /\ remoteAddr = <<>>
    /\ authorization = <<>>

Init ==
    /\ InitServer
    /\ input = <<>>
    /\ output = NoOutput
    /\ NoGate

\* a request arrives (net/http accepts it); the previous one has been answered
Receive ==
    /\ pc \in {"idle", "done"}
    /\ \E h \in Headers : hdr' = h
    /\ pc' = "middleware"
    /\ auth' = NoAuth
    /\ req' = NoReq
    /\ callInfo' = NoCallInfo
    /\ lookups' = <<>>
    /\ issued' = <<>>
    /\ sent' = <<>>
    /\ errs' = <<>>
    /\ local' = NoLocal
    /\ resp' = NoResp
    /\ UNCHANGED <<bvars, pvars, evars>>

contextAuthMiddleware ==
    /\ pc = "middleware"
    /\ auth' = DeriveAuth(hdr)
    /\ pc' = "route"
    /\ UNCHANGED <<bvars, pvars, evars, hdr, req, callInfo, lookups, issued, sent, errs, local, resp>>

----------------------------------------------------------------------------
(* auth.go: call lookup and call-scoped authorization *)

ShowCallsCmd == <<"api", " ", "show", " ", "calls", " ", "as", " ", "json">>

\* the session is used: the command is handed to SendCommand, and is
\* transmitted unless the connection could not be acquired
Issue(cmd, r) ==
    /\ issued' = Append(issued, cmd)
    /\ sent' = IF r.transmitted THEN Append(sent, cmd) ELSE sent
    /\ errs' = Append(errs, r.err)

\* getCallContext, applied to the result r of its SendCommand
getCallContext(callUUID, r) ==
    IF r.err # NoError
    THEN [err |-> <<"failed to retrieve calls", ":", " ">> \o r.err,
          rows |-> <<>>, info |-> NoCallInfo]
    ELSE IF r.out.kind # "json"
    THEN [err |-> <<"failed to parse calls data">>, rows |-> <<>>, info |-> NoCallInfo]
    ELSE LET rows == r.out.doc.rows
             hits == {i \in 1..Len(rows) :
                         rows[i].uuid = callUUID \/ rows[i].b_uuid = callUUID}
         IN  [err  |-> NoError,
              rows |-> rows,
              info |-> IF hits = {}
                       THEN [UUID |-> callUUID, AccountCode |-> <<>>, Found |-> FALSE]
                       ELSE LET i == CHOOSE j \in hits : \A k \in hits : j <= k
                            IN  [UUID |-> callUUID,
                                 AccountCode |-> rows[i].accountcode,
                                 Found |-> TRUE]]

\* a variant of validateCallContext that lets every found call pass, without
\* the membership test on its account code
validateCallContextFoundOnly(a, callUUID, c) ==
    IF c.err # NoError
    THEN [ok |-> FALSE,
          resp |-> respondError(<<"Failed to verify call", ":", " ">> \o c.err, 500)]
    ELSE IF ~c.info.Found
    THEN [ok |-> FALSE,
          resp |-> respondError(<<"Call", " ">> \o callUUID \o <<" ", "not found">>, 404)]
    ELSE [ok |-> TRUE, resp |-> NoResp]

\* a variant of validateCallContext that lets the request pass when the
\* call-list query failed
validateCallContextIgnoreError(a, callUUID, c) ==
    IF c.err # NoError
    THEN [ok |-> TRUE, resp |-> NoResp]
    ELSE IF ~c.info.Found
    THEN [ok |-> FALSE,
          resp |-> respondError(<<"Call", " ">> \o callUUID \o <<" ", "not found">>, 404)]
    ELSE IF isUnrestrictedAccess(a)
    THEN [ok |-> TRUE, resp |-> NoResp]
    ELSE IF \E i \in 1..Len(getAllowedContexts(a)) :
                c.info.AccountCode = getAllowedContexts(a)[i]
    THEN [ok |-> TRUE, resp |-> NoResp]
    ELSE [ok |-> FALSE, resp |-> respondError(<<"Call", " ">> \o callUUID, 403)]

\* a variant of validateCallContext that makes the tenant check first, so
\* that an unrestricted request passes without the call being found
validateCallContextScopeFirst(a, callUUID, c) ==
    IF c.err # NoError
    THEN [ok |-> FALSE,
          resp |-> respondError(<<"Failed to verify call", ":", " ">> \o c.err, 500)]
    ELSE IF isUnrestrictedAccess(a)
    THEN [ok |-> TRUE, resp |-> NoResp]
    ELSE IF ~c.info.Found
    THEN [ok |-> FALSE,
          resp |-> respondError(<<"Call", " ">> \o callUUID \o <<" ", "not found">>, 404)]
    ELSE IF \E i \in 1..Len(getAllowedContexts(a)) :
                c.info.AccountCode = getAllowedContexts(a)[i]
    THEN [ok |-> TRUE, resp |-> NoResp]
    ELSE [ok |-> FALSE, resp |-> respondError(<<"Call", " ">> \o callUUID, 403)]

\* validateCallContext, applied to the result c of its getCallContext
validateCallContext(a, callUUID, c) ==
    IF c.err # NoError
    THEN [ok |-> FALSE,
          resp |-> respondError(<<"Failed to verify call", ":", " ">> \o c.err, 500)]
    ELSE IF ~c.info.Found
    THEN [ok |-> FALSE,
          resp |-> respondError(<<"Call", " ">> \o callUUID \o <<" ", "not found">>, 404)]
    ELSE IF isUnrestrictedAccess(a)
    THEN [ok |-> TRUE, resp |-> NoResp]
    ELSE IF \E i \in 1..Len(getAllowedContexts(a)) :
                c.info.AccountCode = getAllowedContexts(a)[i]
    THEN [ok |-> TRUE, resp |-> NoResp]
    ELSE [ok |-> FALSE,
          resp |-> respondError(
              <<"Call", " ">> \o callUUID \o <<" ", "belongs to context", " ", "'">>
                  \o c.info.AccountCode
                  \o <<"'", " ", "which is not in your allowed contexts", ":", " ", "[">>
                  \o Join(getAllowedContexts(a), <<",", " ">>) \o <<"]">>,
              403)]

\* a variant of validateRequestContext that accepts a context of which an
\* allowed tenant is a prefix or which is a prefix of an allowed tenant
validateRequestContextPrefix(a, requestContext) ==
    IF isUnrestrictedAccess(a) THEN [ok |-> TRUE, resp |-> NoResp]
    ELSE IF \E i \in 1..Len(getAllowedContexts(a)) :
                \/ HasPrefix(requestContext, getAllowedContexts(a)[i])
                \/ HasPrefix(getAllowedContexts(a)[i], requestContext)
    THEN [ok |-> TRUE, resp |-> NoResp]
    ELSE [ok |-> FALSE, resp |-> respondError(<<"Cannot originate call in context">>, 403)]

\* validateRequestContext
validateRequestContext(a, requestContext) ==
    IF isUnrestrictedAccess(a) THEN [ok |-> TRUE, resp |-> NoResp]
    ELSE IF \E i \in 1..Len(getAllowedContexts(a)) : requestContext = getAllowedContexts(a)[i]
    THEN [ok |-> TRUE, resp |-> NoResp]
    ELSE [ok |-> FALSE,
          resp |-> respondError(
              <<"Cannot originate call in context", " ", "'">> \o requestContext
                  \o <<"'", " ", "-", " ", "not in your allowed contexts", ":", " ", "[">>
                  \o Join(getAllowedContexts(a), <<",", " ">>) \o <<"]">>,
              403)]

----------------------------------------------------------------------------
(* handlers.go: call-addressed handlers *)

UUIDInputs == {U1, U2, BadUUID}

\* the common opening of the call-addressed handlers: validateUUID, then
\* validateCallContext with its call-list lookup
CallEntry(h) ==
    /\ pc = "route"
    /\ \E callUUID \in UUIDInputs :
          /\ req' = [NoReq EXCEPT !.handler = h, !.uuid = callUUID]
          /\ IF ~validateUUID(callUUID)
             THEN /\ resp' = respondError(<<"invalid UUID format", ":", " ">> \o callUUID, 400)
                  /\ pc' = "done"
                  /\ UNCHANGED <<callInfo, lookups, issued, sent, errs>>
             ELSE \E o \in Outcomes(CallsReplies) :
                    LET r == SendCommand(ShowCallsCmd, o)
                        c == getCallContext(callUUID, r)
                        v == validateCallContext(auth, callUUID, c)
                    IN  /\ Issue(ShowCallsCmd, r)
                        /\ callInfo' = c.info
                        /\ lookups' = IF c.err = NoError THEN Append(lookups, c.rows)
                                                         ELSE lookups
                        /\ pc' = IF v.ok THEN h ELSE "done"
                        /\ resp' = v.resp
    /\ UNCHANGED <<bvars, pvars, evars, hdr, auth, local>>

\* the common close of the handlers that send one command and report it:
\* SendCommand, getErrorStatusCode on failure, respondSuccess otherwise
sendAndRespond(cmd, failMsg, okMsg) ==
    \E o \in Outcomes({Text(<<"+OK">>)}) :
        LET r == SendCommand(cmd, o)
        IN  /\ Issue(cmd, r)
            /\ resp' = IF r.err # NoError
                       THEN respondError(failMsg \o <<":", " ">> \o r.err,
                                         getErrorStatusCode(r.err))
                       ELSE respondSuccess(okMsg)
            /\ pc' = "done"

\* the close of HangupCall: as sendAndRespond, for a command whose reply
\* body reports an unknown channel as "-ERR No such channel!" under a
\* Reply-Text without error marker.  The text SendCommand returns, which the
\* handler assigns to the blank identifier, is kept in local.fsResponse.
sendAndDiscard(cmd, failMsg, okMsg) ==
    \E o \in Outcomes({Text(<<"+OK">>), Text(<<"-ERR", " ", "No such channel!">>)}) :
        LET r == SendCommand(cmd, o)
        IN  /\ Issue(cmd, r)
            /\ local' = [local EXCEPT !.fsResponse = r.out]
            /\ resp' = IF r.err # NoError
                       THEN respondError(failMsg \o <<":", " ">> \o r.err,
                                         getErrorStatusCode(r.err))
                       ELSE respondSuccess(okMsg)
            /\ pc' = "done"

reject400(message) ==
    /\ resp' = respondError(message, 400)
    /\ pc' = "done"
    /\ UNCHANGED <<issued, sent, errs>>

HangupBodies == {[ok |-> FALSE, cause |-> <<>>], [ok |-> TRUE, cause |-> <<>>],
                 [ok |-> TRUE, cause |-> <<"USER_BUSY">>]}

\* a variant of HangupCall that defaults the cause only when the body has
\* an empty one, and sends no cause for an undecodable body
HangupCallRawCause ==
    \/ CallEntry("HangupCall")
    \/ /\ pc = "HangupCall"
       /\ \E body \in HangupBodies :
             LET cause == IF body.ok /\ body.cause = <<>> THEN <<"NORMAL_CLEARING">>
                          ELSE body.cause
             IN  /\ req' = [req EXCEPT !.bodyOk = body.ok, !.cause = body.cause]
                 /\ sendAndDiscard(<<"api", " ", "uuid_kill", " ">> \o req.uuid \o <<" ">> \o cause,
                                   <<"Failed to hangup call">>,
                                   <<"Call", " ">> \o req.uuid \o <<" ", "hung up with cause", " ">> \o cause)
       /\ UNCHANGED <<bvars, pvars, evars, hdr, auth, callInfo, lookups>>

HangupCall ==
    \/ CallEntry("HangupCall")
    \/ /\ pc = "HangupCall"
       /\ \E body \in HangupBodies :
             LET cause == IF ~body.ok \/ body.cause = <<>> THEN <<"NORMAL_CLEARING">>
                          ELSE body.cause
             IN  /\ req' = [req EXCEPT !.bodyOk = body.ok, !.cause = body.cause]
                 /\ sendAndDiscard(<<"api", " ", "uuid_kill", " ">> \o req.uuid \o <<" ">> \o cause,
                                   <<"Failed to hangup call">>,
                                   <<"Call", " ">> \o req.uuid \o <<" ", "hung up with cause", " ">> \o cause)
       /\ UNCHANGED <<bvars, pvars, evars, hdr, auth, callInfo, lookups>>

\* strings.ToLower on the leg values the inputs contain
ToLower(s) == [i \in 1..Len(s) |-> CASE s[i] = "BLEG" -> "bleg"
                                     [] s[i] = "Both" -> "both"
                                     [] OTHER -> s[i]]

TransferBodies ==
    {[ok |-> FALSE, destination |-> <<>>, leg |-> <<>>, dialplan |-> <<>>, context |-> <<>>],
     [ok |-> TRUE, destination |-> <<>>, leg |-> <<>>, dialplan |-> <<>>, context |-> <<>>],
     [ok |-> TRUE, destination |-> <<"1000">>, leg |-> <<>>, dialplan |-> <<>>, context |-> <<>>],
     [ok |-> TRUE, destination |-> <<"1000">>, leg |-> <<"BLEG">>, dialplan |-> <<>>, context |-> TenantB],
     [ok |-> TRUE, destination |-> <<"1000">>, leg |-> <<"Both">>, dialplan |-> <<"LUA">>, context |-> <<>>],
     [ok |-> TRUE, destination |-> <<"1000">>, leg |-> <<"aleg">>, dialplan |-> <<"LUA">>, context |-> TenantA],
     [ok |-> TRUE, destination |-> <<"1000">>, leg |-> <<"cleg">>, dialplan |-> <<>>, context |-> <<>>]}

\* a variant of TransferCall that sends a supplied dialplan without a context
TransferCallLooseDialplan ==
    \/ CallEntry("TransferCall")
    \/ /\ pc = "TransferCall"
       /\ \E body \in TransferBodies :
             LET leg0 == IF body.leg = <<>> THEN <<"aleg">> ELSE body.leg
                 leg  == ToLower(leg0)
                 flag == IF leg = <<"bleg">> THEN <<"-bleg", " ">>
                         ELSE IF leg = <<"both">> THEN <<"-both", " ">> ELSE <<>>
                 legType == IF leg = <<"bleg">> THEN <<"B-leg">>
                            ELSE IF leg = <<"both">> THEN <<"both legs">> ELSE <<"A-leg">>
                 dialplan == IF body.dialplan = <<>> THEN <<"XML">> ELSE body.dialplan
                 pair == IF body.context # <<>>
                         THEN <<" ">> \o dialplan \o <<" ">> \o body.context
                         ELSE IF body.dialplan # <<>> THEN <<" ">> \o body.dialplan ELSE <<>>
                 cmd  == <<"api", " ", "uuid_transfer", " ">> \o req.uuid \o <<" ">>
                             \o flag \o body.destination \o pair
                 msg  == <<"Call", " ">> \o req.uuid \o <<" ", "(">> \o legType
                             \o <<")", " ", "transferred to", " ">> \o body.destination
                             \o (IF body.dialplan # <<>>
                                 THEN <<" ", "dialplan", " ">> \o body.dialplan ELSE <<>>)
                             \o (IF body.context # <<>>
                                 THEN <<" ", "context", " ">> \o body.context ELSE <<>>)
             IN  /\ req' = [req EXCEPT !.bodyOk = body.ok, !.destination = body.destination,
                                       !.leg = body.leg, !.dialplan = body.dialplan,
                                       !.context = body.context]
                 /\ IF ~body.ok THEN reject400(<<"Invalid request body">>)
                    ELSE IF body.destination = <<>> THEN reject400(<<"destination is required">>)
                    ELSE IF leg \notin {<<"aleg">>, <<"bleg">>, <<"both">>}
                    THEN reject400(<<"leg must be 'aleg', 'bleg', or 'both'">>)
                    ELSE sendAndRespond(cmd, <<"Failed to transfer call">>, msg)
       /\ UNCHANGED <<bvars, pvars, evars, hdr, auth, callInfo, lookups, local>>

\* a variant of TransferCall that validates the destination context against
\* the scope
TransferCallChecksContext ==
    \/ CallEntry("TransferCall")
    \/ /\ pc = "TransferCall"
       /\ \E body \in TransferBodies :
             LET leg0 == IF body.leg = <<>> THEN <<"aleg">> ELSE body.leg
                 leg  == ToLower(leg0)
                 flag == IF leg = <<"bleg">> THEN <<"-bleg", " ">>
                         ELSE IF leg = <<"both">> THEN <<"-both", " ">> ELSE <<>>
                 legType == IF leg = <<"bleg">> THEN <<"B-leg">>
                            ELSE IF leg = <<"both">> THEN <<"both legs">> ELSE <<"A-leg">>
                 dialplan == IF body.dialplan = <<>> THEN <<"XML">> ELSE body.dialplan
                 pair == IF body.context # <<>>
                         THEN <<" ">> \o dialplan \o <<" ">> \o body.context ELSE <<>>
                 cmd  == <<"api", " ", "uuid_transfer", " ">> \o req.uuid \o <<" ">>
                             \o flag \o body.destination \o pair
                 msg  == <<"Call", " ">> \o req.uuid \o <<" ", "(">> \o legType
                             \o <<")", " ", "transferred to", " ">> \o body.destination
                             \o (IF body.dialplan # <<>>
                                 THEN <<" ", "dialplan", " ">> \o body.dialplan ELSE <<>>)
                             \o (IF body.context # <<>>
                                 THEN <<" ", "context", " ">> \o body.context ELSE <<>>)
             IN  /\ req' = [req EXCEPT !.bodyOk = body.ok, !.destination = body.destination,
                                       !.leg = body.leg, !.dialplan = body.dialplan,
                                       !.context = body.context]
                 /\ IF ~body.ok THEN reject400(<<"Invalid request body">>)
                    ELSE IF body.destination = <<>> THEN reject400(<<"destination is required">>)
                    ELSE IF leg \notin {<<"aleg">>, <<"bleg">>, <<"both">>}
                    THEN reject400(<<"leg must be 'aleg', 'bleg', or 'both'">>)
                    ELSE IF body.context # <<>> /\ ~validateRequestContext(auth, body.context).ok
                    THEN /\ resp' = validateRequestContext(auth, body.context).resp
                         /\ pc' = "done"
                         /\ UNCHANGED <<issued, sent, errs>>
                    ELSE sendAndRespond(cmd, <<"Failed to transfer call">>, msg)
       /\ UNCHANGED <<bvars, pvars, evars, hdr, auth, callInfo, lookups, local>>

TransferCall ==
    \/ CallEntry("TransferCall")
    \/ /\ pc = "TransferCall"
       /\ \E body \in TransferBodies :
             LET leg0 == IF body.leg = <<>> THEN <<"aleg">> ELSE body.leg
                 leg  == ToLower(leg0)
                 flag == IF leg = <<"bleg">> THEN <<"-bleg", " ">>
                         ELSE IF leg = <<"both">> THEN <<"-both", " ">> ELSE <<>>
                 legType == IF leg = <<"bleg">> THEN <<"B-leg">>
                            ELSE IF leg = <<"both">> THEN <<"both legs">> ELSE <<"A-leg">>
                 dialplan == IF body.dialplan = <<>> THEN <<"XML">> ELSE body.dialplan
                 pair == IF body.context # <<>>
                         THEN <<" ">> \o dialplan \o <<" ">> \o body.context ELSE <<>>
                 cmd  == <<"api", " ", "uuid_transfer", " ">> \o req.uuid \o <<" ">>
                             \o flag \o body.destination \o pair
                 msg  == <<"Call", " ">> \o req.uuid \o <<" ", "(">> \o legType
                             \o <<")", " ", "transferred to", " ">> \o body.destination
                             \o (IF body.dialplan # <<>>
                                 THEN <<" ", "dialplan", " ">> \o body.dialplan ELSE <<>>)
                             \o (IF body.context # <<>>
                                 THEN <<" ", "context", " ">> \o body.context ELSE <<>>)
             IN  /\ req' = [req EXCEPT !.bodyOk = body.ok, !.destination = body.destination,
                                       !.leg = body.leg, !.dialplan = body.dialplan,
                                       !.context = body.context]
                 /\ IF ~body.ok THEN reject400(<<"Invalid request body">>)
                    ELSE IF body.destination = <<>> THEN reject400(<<"destination is required">>)
                    ELSE IF leg \notin {<<"aleg">>, <<"bleg">>, <<"both">>}
                    THEN reject400(<<"leg must be 'aleg', 'bleg', or 'both'">>)
                    ELSE sendAndRespond(cmd, <<"Failed to transfer call">>, msg)
       /\ UNCHANGED <<bvars, pvars, evars, hdr, auth, callInfo, lookups, local>>

AnswerCall ==
    \/ CallEntry("AnswerCall")
    \/ /\ pc = "AnswerCall"
       /\ sendAndRespond(<<"api", " ", "uuid_answer", " ">> \o req.uuid,
                         <<"Failed to answer call">>,
                         <<"Call", " ">> \o req.uuid \o <<" ", "answered">>)
       /\ UNCHANGED <<bvars, pvars, evars, hdr, auth, req, callInfo, lookups, local>>

HoldBodies == {[ok |-> FALSE, action |-> <<>>], [ok |-> TRUE, action |-> <<"hold">>],
               [ok |-> TRUE, action |-> <<"unhold">>], [ok |-> TRUE, action |-> <<"pause">>]}

ControlHold ==
    \/ CallEntry("ControlHold")
    \/ /\ pc = "ControlHold"
       /\ \E body \in HoldBodies :
             LET cmd == IF body.action = <<"hold">>
                        THEN <<"api", " ", "uuid_hold", " ">> \o req.uuid
                        ELSE <<"api", " ", "uuid_hold", " ", "off", " ">> \o req.uuid
             IN  /\ req' = [req EXCEPT !.bodyOk = body.ok, !.action = body.action]
                 /\ IF ~body.ok THEN reject400(<<"Invalid request body">>)
                    ELSE IF body.action \notin {<<"hold">>, <<"unhold">>}
                    THEN reject400(<<"action must be 'hold' or 'unhold'">>)
                    ELSE sendAndRespond(cmd, <<"Failed to", " ">> \o body.action \o <<" ", "call">>,
                                        <<"Call", " ">> \o req.uuid \o <<" ">> \o body.action)
       /\ UNCHANGED <<bvars, pvars, evars, hdr, auth, callInfo, lookups, local>>

\* helpers.go: validateFilePath; filepath.Clean keeps a leading separator
validateFilePath(path) ==
    /\ path # <<>>
    /\ Head(path) = "/"
    /\ ~Contains(path, <<"..">>)

RecordBodies ==
    {[ok |-> FALSE, action |-> <<>>, filename |-> <<>>],
     [ok |-> TRUE, action |-> <<"stop">>, filename |-> <<>>],
     [ok |-> TRUE, action |-> <<"pause">>, filename |-> <<>>],
     [ok |-> TRUE, action |-> <<"start">>, filename |-> <<>>],
     [ok |-> TRUE, action |-> <<"start">>, filename |-> <<"/", "rec", "/", "a.wav">>],
     [ok |-> TRUE, action |-> <<"start">>, filename |-> <<"rec", "/", "a.wav">>],
     [ok |-> TRUE, action |-> <<"start">>, filename |-> <<"/", "rec", "/", "..", "/", "a.wav">>]}

ControlRecording ==
    \/ CallEntry("ControlRecording")
    \/ /\ pc = "ControlRecording"
       /\ \E body \in RecordBodies :
             LET cmd == IF body.action = <<"start">>
                        THEN <<"api", " ", "uuid_record", " ">> \o req.uuid
                                 \o <<" ", "start", " ">> \o body.filename
                        ELSE <<"api", " ", "uuid_record", " ">> \o req.uuid
                                 \o <<" ", "stop", " ", "all">>
             IN  /\ req' = [req EXCEPT !.bodyOk = body.ok, !.action = body.action,
                                       !.filename = body.filename]
                 /\ IF ~body.ok THEN reject400(<<"Invalid request body">>)
                    ELSE IF body.action \notin {<<"start">>, <<"stop">>}
                    THEN reject400(<<"action must be 'start' or 'stop'">>)
                    ELSE IF body.action = <<"start">> /\ body.filename = <<>>
                    THEN reject400(<<"filename is required for start action">>)
                    ELSE IF body.action = <<"start">> /\ ~validateFilePath(body.filename)
                    THEN reject400(<<"Invalid filename">>)
                    ELSE sendAndRespond(cmd, <<"Failed to", " ">> \o body.action \o <<" ", "recording">>,
                                        <<"Recording", " ">> \o body.action
                                            \o <<" ", "for call", " ">> \o req.uuid)
       /\ UNCHANGED <<bvars, pvars, evars, hdr, auth, callInfo, lookups, local>>

DTMFBodies == {[ok |-> FALSE, digits |-> <<>>, duration |-> 0],
               [ok |-> TRUE, digits |-> <<>>, duration |-> 0],
               [ok |-> TRUE, digits |-> <<"1", "2">>, duration |-> 0],
               [ok |-> TRUE, digits |-> <<"1", "2">>, duration |-> 250]}

SendDTMF ==
    \/ CallEntry("SendDTMF")
    \/ /\ pc = "SendDTMF"
       /\ \E body \in DTMFBodies :
             LET duration == IF body.duration = 0 THEN 100 ELSE body.duration
                 cmd == <<"api", " ", "uuid_send_dtmf", " ">> \o req.uuid \o <<" ">>
                            \o body.digits \o <<"@", ToString(duration)>>
             IN  /\ req' = [req EXCEPT !.bodyOk = body.ok, !.digits = body.digits,
                                       !.duration = body.duration]
                 /\ IF ~body.ok THEN reject400(<<"Invalid request body">>)
                    ELSE IF body.digits = <<>> THEN reject400(<<"digits are required">>)
                    ELSE sendAndRespond(cmd, <<"Failed to send DTMF">>,
                                        <<"DTMF", " ">> \o body.digits
                                            \o <<" ", "sent to call", " ">> \o req.uuid)
       /\ UNCHANGED <<bvars, pvars, evars, hdr, auth, callInfo, lookups, local>>

ParkCall ==
    \/ CallEntry("ParkCall")
    \/ /\ pc = "ParkCall"
       /\ sendAndRespond(<<"api", " ", "uuid_park", " ">> \o req.uuid,
                         <<"Failed to park call">>,
                         <<"Call", " ">> \o req.uuid \o <<" ", "parked">>)
       /\ UNCHANGED <<bvars, pvars, evars, hdr, auth, req, callInfo, lookups, local>>

BridgeBodies ==
    {[ok |-> FALSE, uuid_a |-> <<>>, uuid_b |-> <<>>],
     [ok |-> TRUE, uuid_a |-> U1, uuid_b |-> <<>>],
     [ok |-> TRUE, uuid_a |-> BadUUID, uuid_b |-> U1],
     [ok |-> TRUE, uuid_a |-> U1, uuid_b |-> BadUUID],
     [ok |-> TRUE, uuid_a |-> U1, uuid_b |-> U3],
     [ok |-> TRUE, uuid_a |-> U3, uuid_b |-> U2]}

\* a variant of BridgeValidate that checks the first call only: the second
\* call is looked up and let through
BridgeValidateFirstOnly(callUUID, next) ==
    \E o \in Outcomes(CallsReplies) :
        LET r == SendCommand(ShowCallsCmd, o)
            c == getCallContext(callUUID, r)
            v == validateCallContext(auth, callUUID, c)
            pass == v.ok \/ (next = "BridgeCalls" /\ c.err = NoError)
        IN  /\ Issue(ShowCallsCmd, r)
            /\ callInfo' = c.info
            /\ lookups' = IF c.err = NoError THEN Append(lookups, c.rows) ELSE lookups
            /\ pc' = IF pass THEN next ELSE "done"
            /\ resp' = IF pass THEN NoResp ELSE v.resp

\* one validateCallContext of BridgeCalls, for callUUID, continuing at next
BridgeValidate(callUUID, next) ==
    \E o \in Outcomes(CallsReplies) :
        LET r == SendCommand(ShowCallsCmd, o)
            c == getCallContext(callUUID, r)
            v == validateCallContext(auth, callUUID, c)
        IN  /\ Issue(ShowCallsCmd, r)
            /\ callInfo' = c.info
            /\ lookups' = IF c.err = NoError THEN Append(lookups, c.rows) ELSE lookups
            /\ pc' = IF v.ok THEN next ELSE "done"
            /\ resp' = v.resp

BridgeCalls ==
    \/ /\ pc = "route"
       /\ \E body \in BridgeBodies :
             /\ req' = [NoReq EXCEPT !.handler = "BridgeCalls", !.bodyOk = body.ok,
                                     !.uuid = body.uuid_a, !.uuid_b = body.uuid_b]
             /\ IF ~body.ok
                THEN reject400(<<"Invalid request body">>) /\ UNCHANGED <<callInfo, lookups>>
                ELSE IF body.uuid_a = <<>> \/ body.uuid_b = <<>>
                THEN reject400(<<"uuid_a and uuid_b are required">>) /\ UNCHANGED <<callInfo, lookups>>
                ELSE IF ~validateUUID(body.uuid_a)
                THEN reject400(<<"uuid_a", ":", " ", "invalid UUID format">>) /\ UNCHANGED <<callInfo, lookups>>
                ELSE IF ~validateUUID(body.uuid_b)
                THEN reject400(<<"uuid_b", ":", " ", "invalid UUID format">>) /\ UNCHANGED <<callInfo, lookups>>
                ELSE BridgeValidate(body.uuid_a, "BridgeCalls:uuid_b")
       /\ UNCHANGED <<bvars, pvars, evars, hdr, auth, local>>
    \/ /\ pc = "BridgeCalls:uuid_b"
       /\ BridgeValidate(req.uuid_b, "BridgeCalls")
       /\ UNCHANGED <<bvars, pvars, evars, hdr, auth, req, local>>
    \/ /\ pc = "BridgeCalls"
       /\ sendAndRespond(<<"api", " ", "uuid_bridge", " ">> \o req.uuid \o <<" ">> \o req.uuid_b,
                         <<"Failed to bridge calls">>,
                         <<"Calls", " ">> \o req.uuid \o <<" ", "and", " ">> \o req.uuid_b
                             \o <<" ", "bridged">>)
       /\ UNCHANGED <<bvars, pvars, evars, hdr, auth, req, callInfo, lookups, local>>

\* request bodies of OriginateCall; channel_variables is given in the order
\* the map iteration yields its entries, which Go leaves unspecified
ChannelVariableLists ==
    { <<>>,
      <<<<"sip_h_X", "=", "1">>>>,
      <<<<"sip_h_X", "=", "1">>, <<"origination_caller_id_name", "=", "'", "x", "'">>>>,
      <<<<"origination_caller_id_name", "=", "'", "x", "'">>, <<"sip_h_X", "=", "1">>>> }

OriginateBodies ==
    {[ok |-> FALSE, aleg |-> <<>>, bleg |-> <<>>, dialplan |-> <<>>, context |-> <<>>,
      caller_id_name |-> <<>>, caller_id_number |-> <<>>, timeout_sec |-> 0,
      channel_variables |-> <<>>],
     [ok |-> TRUE, aleg |-> <<>>, bleg |-> <<>>, dialplan |-> <<>>, context |-> TenantB,
      caller_id_name |-> <<>>, caller_id_number |-> <<>>, timeout_sec |-> 0,
      channel_variables |-> <<>>],
     [ok |-> TRUE, aleg |-> <<"user/1000">>, bleg |-> <<"1001">>, dialplan |-> <<"XML">>,
      context |-> TenantA, caller_id_name |-> <<"Bob">>, caller_id_number |-> <<"555">>,
      timeout_sec |-> 30, channel_variables |-> <<>>]}
    \cup {[ok |-> TRUE, aleg |-> <<"user/1000">>, bleg |-> <<>>, dialplan |-> <<>>,
           context |-> c, caller_id_name |-> <<>>, caller_id_number |-> <<>>,
           timeout_sec |-> 0, channel_variables |-> cv] :
             c \in {<<>>, TenantA, TenantB, TenantAB}, cv \in ChannelVariableLists}

\* a variant of OriginateCall that validates the context even when the body
\* has none
OriginateCallAlwaysChecks ==
    /\ pc = "route"
    /\ \E body \in OriginateBodies :
          LET v == validateRequestContext(auth, body.context)
              bleg == IF body.bleg = <<>> THEN <<"&park()">> ELSE body.bleg
              vars0 == body.channel_variables
              vars1 == IF body.caller_id_number # <<>>
                       THEN Append(vars0, <<"origination_caller_id_number", "=">>
                                              \o body.caller_id_number)
                       ELSE vars0
              vars2 == IF body.caller_id_name # <<>>
                       THEN Append(vars1, <<"origination_caller_id_name", "=", "'">>
                                              \o body.caller_id_name \o <<"'">>)
                       ELSE vars1
              channelVars == IF Len(vars2) > 0
                             THEN <<"{">> \o Join(vars2, <<",">>) \o <<"}">> ELSE <<>>
              cmd == <<"api", " ", "originate", " ">> \o channelVars \o body.aleg \o <<" ">> \o bleg
                        \o (IF body.dialplan # <<>> THEN <<" ">> \o body.dialplan ELSE <<>>)
                        \o (IF body.context # <<>> THEN <<" ">> \o body.context ELSE <<>>)
                        \o (IF body.caller_id_name # <<>>
                               /\ ~Contains(channelVars, <<"origination_caller_id_name">>)
                            THEN <<" ">> \o body.caller_id_name ELSE <<>>)
                        \o (IF body.caller_id_number # <<>>
                               /\ ~Contains(channelVars, <<"origination_caller_id_number">>)
                            THEN <<" ">> \o body.caller_id_number ELSE <<>>)
                        \o (IF body.timeout_sec > 0 THEN <<" ", ToString(body.timeout_sec)>> ELSE <<>>)
          IN  /\ req' = [NoReq EXCEPT !.handler = "OriginateCall", !.bodyOk = body.ok,
                                      !.aleg = body.aleg, !.bleg = body.bleg,
                                      !.dialplan = body.dialplan, !.context = body.context,
                                      !.caller_id_name = body.caller_id_name,
                                      !.caller_id_number = body.caller_id_number,
                                      !.timeout_sec = body.timeout_sec,
                                      !.channel_variables = body.channel_variables]
              /\ IF ~body.ok THEN reject400(<<"Invalid request body">>)
                 ELSE IF body.aleg = <<>> THEN reject400(<<"aleg is required">>)
                 ELSE IF ~v.ok
                 THEN /\ resp' = v.resp
                      /\ pc' = "done"
                      /\ UNCHANGED <<issued, sent, errs>>
                 ELSE \E o \in Outcomes({Text(<<"+OK", " ", "job-uuid", "\n">>)}) :
                         LET r == SendCommand(cmd, o)
                         IN  /\ Issue(cmd, r)
                             /\ resp' = IF r.err # NoError
                                        THEN respondError(<<"Failed to originate call", ":", " ">> \o r.err,
                                                          getErrorStatusCode(r.err))
                                        ELSE [NoResp EXCEPT !.status = 200, !.kind = "data",
                                                            !.message = TrimSpace(r.out.text)]
                             /\ pc' = "done"
    /\ UNCHANGED <<bvars, pvars, evars, hdr, auth, callInfo, lookups, local>>

OriginateCall ==
    /\ pc = "route"
    /\ \E body \in OriginateBodies :
          LET v == validateRequestContext(auth, body.context)
              bleg == IF body.bleg = <<>> THEN <<"&park()">> ELSE body.bleg
              vars0 == body.channel_variables
              vars1 == IF body.caller_id_number # <<>>
                       THEN Append(vars0, <<"origination_caller_id_number", "=">>
                                              \o body.caller_id_number)
                       ELSE vars0
              vars2 == IF body.caller_id_name # <<>>
                       THEN Append(vars1, <<"origination_caller_id_name", "=", "'">>
                                              \o body.caller_id_name \o <<"'">>)
                       ELSE vars1
              channelVars == IF Len(vars2) > 0
                             THEN <<"{">> \o Join(vars2, <<",">>) \o <<"}">> ELSE <<>>
              cmd == <<"api", " ", "originate", " ">> \o channelVars \o body.aleg \o <<" ">> \o bleg
                        \o (IF body.dialplan # <<>> THEN <<" ">> \o body.dialplan ELSE <<>>)
                        \o (IF body.context # <<>> THEN <<" ">> \o body.context ELSE <<>>)
                        \o (IF body.caller_id_name # <<>>
                               /\ ~Contains(channelVars, <<"origination_caller_id_name">>)
                            THEN <<" ">> \o body.caller_id_name ELSE <<>>)
                        \o (IF body.caller_id_number # <<>>
                               /\ ~Contains(channelVars, <<"origination_caller_id_number">>)
                            THEN <<" ">> \o body.caller_id_number ELSE <<>>)
                        \o (IF body.timeout_sec > 0 THEN <<" ", ToString(body.timeout_sec)>> ELSE <<>>)
          IN  /\ req' = [NoReq EXCEPT !.handler = "OriginateCall", !.bodyOk = body.ok,
                                      !.aleg = body.aleg, !.bleg = body.bleg,
                                      !.dialplan = body.dialplan, !.context = body.context,
                                      !.caller_id_name = body.caller_id_name,
                                      !.caller_id_number = body.caller_id_number,
                                      !.timeout_sec = body.timeout_sec,
                                      !.channel_variables = body.channel_variables]
              /\ IF ~body.ok THEN reject400(<<"Invalid request body">>)
                 ELSE IF body.aleg = <<>> THEN reject400(<<"aleg is required">>)
                 ELSE IF body.context # <<>> /\ ~v.ok
                 THEN /\ resp' = v.resp
                      /\ pc' = "done"
                      /\ UNCHANGED <<issued, sent, errs>>
                 ELSE \E o \in Outcomes({Text(<<"+OK", " ", "job-uuid", "\n">>)}) :
                         LET r == SendCommand(cmd, o)
                         IN  /\ Issue(cmd, r)
                             /\ resp' = IF r.err # NoError
                                        THEN respondError(<<"Failed to originate call", ":", " ">> \o r.err,
                                                          getErrorStatusCode(r.err))
                                        ELSE [NoResp EXCEPT !.status = 200, !.kind = "data",
                                                            !.message = TrimSpace(r.out.text)]
                             /\ pc' = "done"
    /\ UNCHANGED <<bvars, pvars, evars, hdr, auth, callInfo, lookups, local>>

DumpCmd(uuid) == <<"api", " ", "uuid_dump", " ">> \o uuid \o <<" ", "json">>

\* replies of the switch to "uuid_dump <uuid> json"
DumpReplies(uuid) == {Json(DumpDoc(uuid)), Text(<<"-ERR", " ", "No such channel!">>)}

\* a variant of buildDetails that leaves the bleg grouping out when the
\* B-leg dump failed
buildDetailsOmitFailed(rows, aLegUUID, aLegDetails, bLegUUID, bLegNull, bLegDetails) ==
    [NoResp EXCEPT
        !.status = 200, !.kind = "details",
        !.call_info = rows[1],
        !.aleg = [present |-> TRUE, uuid |-> aLegUUID, null |-> FALSE, details |-> aLegDetails],
        !.bleg = IF bLegUUID # <<>> /\ ~bLegNull
                 THEN [present |-> TRUE, uuid |-> bLegUUID, null |-> bLegNull,
                       details |-> bLegDetails]
                 ELSE NoLeg]

\* the response GetCallDetails writes: call_info, aleg and, for a non-empty
\* B-leg UUID, bleg (whose details are null when the dump failed)
buildDetails(rows, aLegUUID, aLegDetails, bLegUUID, bLegNull, bLegDetails) ==
    [NoResp EXCEPT
        !.status = 200, !.kind = "details",
        !.call_info = rows[1],
        !.aleg = [present |-> TRUE, uuid |-> aLegUUID, null |-> FALSE, details |-> aLegDetails],
        !.bleg = IF bLegUUID # <<>>
                 THEN [present |-> TRUE, uuid |-> bLegUUID, null |-> bLegNull,
                       details |-> bLegDetails]
                 ELSE NoLeg]

\* a variant of GetCallDetails that goes on to the B-leg dump when the A-leg
\* dump could not be parsed
GetCallDetailsDumpUnparsed ==
    \/ CallEntry("GetCallDetails")
    \/ /\ pc = "GetCallDetails"           \* step 1 and 2: the call list, again
       /\ \E o \in Outcomes(CallsReplies) :
             LET r == SendCommand(ShowCallsCmd, o)
                 rows == r.out.doc.rows
                 hits == {i \in 1..Len(rows) :
                             rows[i].uuid = req.uuid \/ rows[i].b_uuid = req.uuid}
                 i == CHOOSE j \in hits : \A k \in hits : j <= k
             IN  /\ Issue(ShowCallsCmd, r)
                 /\ IF r.err # NoError
                    THEN /\ resp' = respondError(<<"Failed to retrieve call information", ":", " ">> \o r.err,
                                                 getErrorStatusCode(r.err))
                         /\ pc' = "done"
                         /\ UNCHANGED <<lookups, local>>
                    ELSE IF r.out.kind # "json"
                    THEN /\ resp' = respondError(<<"Failed to parse call information">>, 500)
                         /\ pc' = "done"
                         /\ UNCHANGED <<lookups, local>>
                    ELSE IF hits = {}
                    THEN /\ resp' = respondError(<<"Call", " ">> \o req.uuid \o <<" ", "not found">>, 404)
                         /\ pc' = "done"
                         /\ lookups' = Append(lookups, rows)
                         /\ UNCHANGED local
                    ELSE /\ local' = [local EXCEPT !.aLegUUID = rows[i].uuid,
                                                   !.bLegUUID = rows[i].b_uuid]
                         /\ lookups' = Append(lookups, rows)
                         /\ pc' = "GetCallDetails:aleg"
                         /\ UNCHANGED resp
       /\ UNCHANGED <<bvars, pvars, evars, hdr, auth, req, callInfo>>
    \/ /\ pc = "GetCallDetails:aleg"      \* step 3: the A-leg dump
       /\ \E o \in Outcomes(DumpReplies(local.aLegUUID)) :
             LET r == SendCommand(DumpCmd(local.aLegUUID), o)
             IN  /\ Issue(DumpCmd(local.aLegUUID), r)
                 /\ IF r.err # NoError
                    THEN /\ resp' = respondError(<<"Failed to retrieve A-leg details", ":", " ">> \o r.err, 500)
                         /\ pc' = "done"
                         /\ UNCHANGED local
                    ELSE IF r.out.kind # "json" /\ local.bLegUUID = <<>>
                    THEN /\ resp' = respondError(<<"Failed to parse A-leg details">>, 500)
                         /\ pc' = "done"
                         /\ UNCHANGED local
                    ELSE IF local.bLegUUID # <<>>
                    THEN /\ local' = [local EXCEPT !.aLegDetails = r.out.doc]
                         /\ pc' = "GetCallDetails:bleg"
                         /\ UNCHANGED resp
                    ELSE /\ resp' = buildDetails(lookups[Len(lookups)], local.aLegUUID,
                                                 r.out.doc, <<>>, TRUE, NoDoc)
                         /\ pc' = "done"
                         /\ UNCHANGED local
       /\ UNCHANGED <<bvars, pvars, evars, hdr, auth, req, callInfo, lookups>>
    \/ /\ pc = "GetCallDetails:bleg"      \* step 4: the B-leg dump, not fatal
       /\ \E o \in Outcomes(DumpReplies(local.bLegUUID)) :
             LET r == SendCommand(DumpCmd(local.bLegUUID), o)
                 failed == r.err # NoError \/ r.out.kind # "json"
             IN  /\ Issue(DumpCmd(local.bLegUUID), r)
                 /\ resp' = buildDetails(lookups[Len(lookups)], local.aLegUUID,
                                         local.aLegDetails, local.bLegUUID, failed,
                                         IF failed THEN NoDoc ELSE r.out.doc)
                 /\ pc' = "done"
       /\ UNCHANGED <<bvars, pvars, evars, hdr, auth, req, callInfo, lookups, local>>

GetCallDetails ==
    \/ CallEntry("GetCallDetails")
    \/ /\ pc = "GetCallDetails"           \* step 1 and 2: the call list, again
       /\ \E o \in Outcomes(CallsReplies) :
             LET r == SendCommand(ShowCallsCmd, o)
                 rows == r.out.doc.rows
                 hits == {i \in 1..Len(rows) :
                             rows[i].uuid = req.uuid \/ rows[i].b_uuid = req.uuid}
                 i == CHOOSE j \in hits : \A k \in hits : j <= k
             IN  /\ Issue(ShowCallsCmd, r)
                 /\ IF r.err # NoError
                    THEN /\ resp' = respondError(<<"Failed to retrieve call information", ":", " ">> \o r.err,
                                                 getErrorStatusCode(r.err))
                         /\ pc' = "done"
                         /\ UNCHANGED <<lookups, local>>
                    ELSE IF r.out.kind # "json"
                    THEN /\ resp' = respondError(<<"Failed to parse call information">>, 500)
                         /\ pc' = "done"
                         /\ UNCHANGED <<lookups, local>>
                    ELSE IF hits = {}
                    THEN /\ resp' = respondError(<<"Call", " ">> \o req.uuid \o <<" ", "not found">>, 404)
                         /\ pc' = "done"
                         /\ lookups' = Append(lookups, rows)
                         /\ UNCHANGED local
                    ELSE /\ local' = [local EXCEPT !.aLegUUID = rows[i].uuid,
                                                   !.bLegUUID = rows[i].b_uuid]
                         /\ lookups' = Append(lookups, rows)
                         /\ pc' = "GetCallDetails:aleg"
                         /\ UNCHANGED resp
       /\ UNCHANGED <<bvars, pvars, evars, hdr, auth, req, callInfo>>
    \/ /\ pc = "GetCallDetails:aleg"      \* step 3: the A-leg dump
       /\ \E o \in Outcomes(DumpReplies(local.aLegUUID)) :
             LET r == SendCommand(DumpCmd(local.aLegUUID), o)
             IN  /\ Issue(DumpCmd(local.aLegUUID), r)
                 /\ IF r.err # NoError
                    THEN /\ resp' = respondError(<<"Failed to retrieve A-leg details", ":", " ">> \o r.err, 500)
                         /\ pc' = "done"
                         /\ UNCHANGED local
                    ELSE IF r.out.kind # "json"
                    THEN /\ resp' = respondError(<<"Failed to parse A-leg details">>, 500)
                         /\ pc' = "done"
                         /\ UNCHANGED local
                    ELSE IF local.bLegUUID # <<>>
                    THEN /\ local' = [local EXCEPT !.aLegDetails = r.out.doc]
                         /\ pc' = "GetCallDetails:bleg"
                         /\ UNCHANGED resp
                    ELSE /\ resp' = buildDetails(lookups[Len(lookups)], local.aLegUUID,
                                                 r.out.doc, <<>>, TRUE, NoDoc)
                         /\ pc' = "done"
                         /\ UNCHANGED local
       /\ UNCHANGED <<bvars, pvars, evars, hdr, auth, req, callInfo, lookups>>
    \/ /\ pc = "GetCallDetails:bleg"      \* step 4: the B-leg dump, not fatal
       /\ \E o \in Outcomes(DumpReplies(local.bLegUUID)) :
             LET r == SendCommand(DumpCmd(local.bLegUUID), o)
                 failed == r.err # NoError \/ r.out.kind # "json"
             IN  /\ Issue(DumpCmd(local.bLegUUID), r)
                 /\ resp' = buildDetails(lookups[Len(lookups)], local.aLegUUID,
                                         local.aLegDetails, local.bLegUUID, failed,
                                         IF failed THEN NoDoc ELSE r.out.doc)
                 /\ pc' = "done"
       /\ UNCHANGED <<bvars, pvars, evars, hdr, auth, req, callInfo, lookups, local>>

----------------------------------------------------------------------------
(* cc_handlers.go: callcenter handlers *)

\* a variant of validateCCDomain that treats a name without a domain as
\* belonging to no tenant and lets it pass
validateCCDomainBareAllowed(a, entityName, entityType) ==
    IF isUnrestrictedAccess(a) \/ extractDomain(entityName) = <<>>
    THEN [ok |-> TRUE, resp |-> NoResp]
    ELSE IF isDomainAllowed(entityName, getAllowedContexts(a)) THEN [ok |-> TRUE, resp |-> NoResp]
    ELSE [ok |-> FALSE,
          resp |-> respondError(entityType \o <<" ", "'">> \o entityName \o <<"'">>, 403)]

\* a variant of validateCCDomain whose message names the whole entity name as
\* the domain
validateCCDomainNameAsDomain(a, entityName, entityType) ==
    IF isUnrestrictedAccess(a) THEN [ok |-> TRUE, resp |-> NoResp]
    ELSE IF isDomainAllowed(entityName, getAllowedContexts(a)) THEN [ok |-> TRUE, resp |-> NoResp]
    ELSE [ok |-> FALSE,
          resp |-> respondError(
              entityType \o <<" ", "'">> \o entityName \o <<"'", " ", "belongs to domain", " ", "'">>
                  \o entityName
                  \o <<"'", " ", "which is not in your allowed contexts", ":", " ", "[">>
                  \o Join(getAllowedContexts(a), <<",", " ">>) \o <<"]">>,
              403)]

\* validateCCDomain
validateCCDomain(a, entityName, entityType) ==
    IF isUnrestrictedAccess(a) THEN [ok |-> TRUE, resp |-> NoResp]
    ELSE IF isDomainAllowed(entityName, getAllowedContexts(a)) THEN [ok |-> TRUE, resp |-> NoResp]
    ELSE [ok |-> FALSE,
          resp |-> respondError(
              entityType \o <<" ", "'">> \o entityName \o <<"'", " ", "belongs to domain", " ", "'">>
                  \o extractDomain(entityName)
                  \o <<"'", " ", "which is not in your allowed contexts", ":", " ", "[">>
                  \o Join(getAllowedContexts(a), <<",", " ">>) \o <<"]">>,
              403)]

\* a variant of validateCCDomainRaw that compares by prefix instead of equality
validateCCDomainRawPrefix(a, domain, entityType) ==
    IF isUnrestrictedAccess(a) THEN [ok |-> TRUE, resp |-> NoResp]
    ELSE IF \E i \in 1..Len(getAllowedContexts(a)) : HasPrefix(getAllowedContexts(a)[i], domain)
    THEN [ok |-> TRUE, resp |-> NoResp]
    ELSE [ok |-> FALSE,
          resp |-> respondError(entityType \o <<" ", "domain", " ", "'">> \o domain \o <<"'">>, 403)]

\* validateCCDomainRaw
validateCCDomainRaw(a, domain, entityType) ==
    IF isUnrestrictedAccess(a) THEN [ok |-> TRUE, resp |-> NoResp]
    ELSE IF \E i \in 1..Len(getAllowedContexts(a)) : domain = getAllowedContexts(a)[i]
    THEN [ok |-> TRUE, resp |-> NoResp]
    ELSE [ok |-> FALSE,
          resp |-> respondError(
              entityType \o <<" ", "domain", " ", "'">> \o domain
                  \o <<"'", " ", "is not in your allowed contexts", ":", " ", "[">>
                  \o Join(getAllowedContexts(a), <<",", " ">>) \o <<"]">>,
              403)]

\* sendCCCommand builds the command it hands to SendCommand
CCCommand(args) == <<"api", " ", "callcenter_config", " ">> \o args

\* respondJSON with a CCListResponse
respondList(rows) ==
    [NoResp EXCEPT !.status = 200, !.kind = "list", !.row_count = Len(rows), !.rows = rows]

\* respondJSON with a CCCountResponse
respondCount(n) == [NoResp EXCEPT !.status = 200, !.kind = "count", !.count = n]

deny(r) ==
    /\ resp' = r
    /\ pc' = "done"
    /\ UNCHANGED <<issued, sent, errs>>

QueueA == <<"q1", "@", "a">>

QueueB == <<"q1", "@", "b">>

QueueAB == <<"q2", "@", "a", "b">>

QueueBare == <<"q3">>

QueueNames == {QueueA, QueueB, QueueAB, QueueBare}

\* replies of the switch to "queue list"
QueueListReplies ==
    { Text(<<>>),
      Text(<<"name", "|", "strategy", "\n",
             "q1", "@", "a", "|", "ring-all", "\n",
             "q1", "@", "b", "|", "ring-all", "\n",
             "q2", "@", "a", "|", "longest-idle", "\n", "+OK", "\n">>),
      Text(<<"+OK", "\n", "strategy", "|", " ", "name", " ", "\n", "\n",
             "rr", "|", " ", "q2", "@", "a", "b", "\n",
             "rr", "\n",
             "rr", "|", "q3", "|", "extra", "\n",
             "rr", "|", "q1", "@", "a", "\n">>) }

\* replies of the switch to "tier list"
TierListReplies ==
    { Text(<<"queue", "|", "agent", "|", "level", "\n",
             "q1", "@", "b", "|", "agent2", "|", "1", "\n",
             "q1", "@", "a", "|", "agent1", "|", "1", "\n",
             "q3", "|", "agent1", "\n",
             "q1", "@", "a", "|", "agent2", "|", "2", "\n">>),
      Text(<<"+OK">>) }

\* replies of the switch to the per-queue list commands
QueueDetailReplies ==
    { Text(<<"name", "|", "state", "\n", "agent1", "|", "Waiting", "\n", "agent2", "\n">>),
      Text(<<"+OK">>) }

\* replies of the switch to the count commands
CountReplies ==
    { Text(<<"3">>), Text(<<"+OK", "\n", "\n", "x", "\n", " ", "1", "2", "\n", "7">>),
      Text(<<"+OK">>) }

\* the switch's agents; an agent's tenant is the domain_name of its contact
AgentA == <<"agent1">>

AgentB == <<"agent2">>

AgentNone == <<"agent3">>

ContactOf(agent) ==
    CASE agent = AgentA -> <<"{">> \o DomainNameKey \o TenantA \o <<"}", "user/1000">>
      [] agent = AgentB -> <<"{", "call_timeout=10", ",">> \o DomainNameKey \o TenantB
                               \o <<",", "x=1", "}", "user/2000">>
      [] OTHER -> <<"user/3000">>

AgentListReplies ==
    { Text(<<"name", "|", "type", "|", "contact", "\n">>
           \o AgentB \o <<"|", "callback", "|">> \o ContactOf(AgentB) \o <<"\n">>
           \o AgentNone \o <<"|", "callback", "|">> \o ContactOf(AgentNone) \o <<"\n">>
           \o AgentA \o <<"|", "callback", "|">> \o ContactOf(AgentA) \o <<"\n", "+OK", "\n">>),
      Text(<<"name", "|", "type", "\n">> \o AgentA \o <<"|", "callback", "\n">>),
      Text(<<>>) }

\* a list handler without a queue in its path: list, parse, filter when
\* restricted; agents are filtered on their contact, queues and tiers on the
\* field that holds the queue name
ListAll(h, args, replies, failMsg, fieldName) ==
    /\ pc = "route"
    /\ req' = [NoReq EXCEPT !.handler = h]
    /\ \E o \in Outcomes(replies) :
          LET r == SendCommand(CCCommand(args), o)
              rows == ParsePipeDelimited(r.out.text)
              filtered == IF fieldName = <<"contact">>
                          THEN filterAgentsByDomain(rows, getAllowedContexts(auth))
                          ELSE filterByDomain(rows, fieldName, getAllowedContexts(auth))
          IN  /\ Issue(CCCommand(args), r)
              /\ local' = [local EXCEPT !.response = r.out.text]
              /\ resp' = IF r.err # NoError
                         THEN respondError(failMsg \o <<":", " ">> \o r.err, getErrorStatusCode(r.err))
                         ELSE IF ~isUnrestrictedAccess(auth) THEN respondList(filtered)
                         ELSE respondList(rows)
    /\ pc' = "done"
    /\ UNCHANGED <<bvars, pvars, evars, hdr, auth, callInfo, lookups>>

CCListQueues ==
    ListAll("CCListQueues", <<"queue", " ", "list">>, QueueListReplies, <<"Failed to list queues">>,
            <<"name">>)

\* a variant of CCCountQueues that asks the switch for its own count whatever
\* the scope is
CCCountQueuesNative ==
    /\ pc = "route"
    /\ req' = [NoReq EXCEPT !.handler = "CCCountQueues"]
    /\ \E o \in Outcomes(CountReplies) :
          LET cmd == CCCommand(<<"queue", " ", "count">>)
              r == SendCommand(cmd, o)
              count == ParsePlainCount(r.out.text)
          IN  /\ Issue(cmd, r)
              /\ local' = [local EXCEPT !.response = r.out.text]
              /\ resp' = IF r.err # NoError
                         THEN respondError(<<"Failed to count queues", ":", " ">> \o r.err,
                                           getErrorStatusCode(r.err))
                         ELSE IF ~count.ok
                         THEN respondError(<<"Failed to parse queue count">>, 500)
                         ELSE respondCount(count.n)
    /\ pc' = "done"
    /\ UNCHANGED <<bvars, pvars, evars, hdr, auth, callInfo, lookups>>

CCCountQueues ==
    /\ pc = "route"
    /\ req' = [NoReq EXCEPT !.handler = "CCCountQueues"]
    /\ IF isUnrestrictedAccess(auth)
       THEN \E o \in Outcomes(CountReplies) :
               LET cmd == CCCommand(<<"queue", " ", "count">>)
                   r == SendCommand(cmd, o)
                   count == ParsePlainCount(r.out.text)
               IN  /\ Issue(cmd, r)
                   /\ local' = [local EXCEPT !.response = r.out.text]
                   /\ resp' = IF r.err # NoError
                              THEN respondError(<<"Failed to count queues", ":", " ">> \o r.err,
                                                getErrorStatusCode(r.err))
                              ELSE IF ~count.ok
                              THEN respondError(<<"Failed to parse queue count">>, 500)
                              ELSE respondCount(count.n)
       ELSE \E o \in Outcomes(QueueListReplies) :
               LET cmd == CCCommand(<<"queue", " ", "list">>)
                   r == SendCommand(cmd, o)
                   rows == filterByDomain(ParsePipeDelimited(r.out.text), <<"name">>,
                                          getAllowedContexts(auth))
               IN  /\ Issue(cmd, r)
                   /\ local' = [local EXCEPT !.response = r.out.text]
                   /\ resp' = IF r.err # NoError
                              THEN respondError(<<"Failed to list queues", ":", " ">> \o r.err,
                                                getErrorStatusCode(r.err))
                              ELSE respondCount(Len(rows))
    /\ pc' = "done"
    /\ UNCHANGED <<bvars, pvars, evars, hdr, auth, callInfo, lookups>>

\* a list handler addressed to one queue: validateCCDomain, list, parse
QueueList(h, verb, failMsg) ==
    /\ pc = "route"
    /\ \E queueName \in QueueNames :
          LET v == validateCCDomain(auth, queueName, <<"Queue">>)
              cmd == CCCommand(<<"queue", " ", "list", " ", verb, " ">> \o queueName)
          IN  /\ req' = [NoReq EXCEPT !.handler = h, !.queue = queueName]
              /\ IF ~v.ok THEN deny(v.resp)
                 ELSE \E o \in Outcomes(QueueDetailReplies) :
                         LET r == SendCommand(cmd, o)
                         IN  /\ Issue(cmd, r)
                             /\ resp' = IF r.err # NoError
                                        THEN respondError(failMsg \o <<":", " ">> \o r.err,
                                                          getErrorStatusCode(r.err))
                                        ELSE respondList(ParsePipeDelimited(r.out.text))
                             /\ pc' = "done"
    /\ UNCHANGED <<bvars, pvars, evars, hdr, auth, callInfo, lookups, local>>

CCListQueueAgents == QueueList("CCListQueueAgents", "agents", <<"Failed to list queue agents">>)

CCListQueueMembers == QueueList("CCListQueueMembers", "members", <<"Failed to list queue members">>)

CCListQueueTiers == QueueList("CCListQueueTiers", "tiers", <<"Failed to list queue tiers">>)

\* a count handler addressed to one queue: validateCCDomain, count, parse
QueueCount(h, verb, statuses, failMsg, parseMsg) ==
    /\ pc = "route"
    /\ \E queueName \in QueueNames, status \in statuses :
          LET v == validateCCDomain(auth, queueName, <<"Queue">>)
              cmd == CCCommand(<<"queue", " ", "count", " ", verb, " ">> \o queueName
                         \o (IF status # <<>> THEN <<" ">> \o status ELSE <<>>))
          IN  /\ req' = [NoReq EXCEPT !.handler = h, !.queue = queueName, !.status = status]
              /\ IF ~v.ok THEN deny(v.resp)
                 ELSE \E o \in Outcomes(CountReplies) :
                         LET r == SendCommand(cmd, o)
                             count == ParsePlainCount(r.out.text)
                         IN  /\ Issue(cmd, r)
                             /\ resp' = IF r.err # NoError
                                        THEN respondError(failMsg \o <<":", " ">> \o r.err,
                                                          getErrorStatusCode(r.err))
                                        ELSE IF ~count.ok THEN respondError(parseMsg, 500)
                                        ELSE respondCount(count.n)
                             /\ pc' = "done"
    /\ UNCHANGED <<bvars, pvars, evars, hdr, auth, callInfo, lookups, local>>

CCCountQueueAgents ==
    QueueCount("CCCountQueueAgents", "agents", {<<>>, <<"Available">>},
               <<"Failed to count queue agents">>, <<"Failed to parse agent count">>)

CCCountQueueMembers ==
    QueueCount("CCCountQueueMembers", "members", {<<>>},
               <<"Failed to count queue members">>, <<"Failed to parse member count">>)

CCCountQueueTiers ==
    QueueCount("CCCountQueueTiers", "tiers", {<<>>},
               <<"Failed to count queue tiers">>, <<"Failed to parse tier count">>)

\* load, unload and reload of one queue
QueueOp(h, verb, done) ==
    /\ pc = "route"
    /\ \E queueName \in QueueNames :
          LET v == validateCCDomain(auth, queueName, <<"Queue">>)
          IN  /\ req' = [NoReq EXCEPT !.handler = h, !.queue = queueName]
              /\ IF ~v.ok THEN deny(v.resp)
                 ELSE sendAndRespond(CCCommand(<<"queue", " ", verb, " ">> \o queueName),
                                     <<"Failed to", " ", verb, " ", "queue">>,
                                     <<"Queue", " ">> \o queueName \o <<" ", done>>)
    /\ UNCHANGED <<bvars, pvars, evars, hdr, auth, callInfo, lookups, local>>

CCLoadQueue == QueueOp("CCLoadQueue", "load", "loaded")

CCUnloadQueue == QueueOp("CCUnloadQueue", "unload", "unloaded")

CCReloadQueue == QueueOp("CCReloadQueue", "reload", "reloaded")

CCListAgents ==
    ListAll("CCListAgents", <<"agent", " ", "list">>, AgentListReplies, <<"Failed to list agents">>,
            <<"contact">>)

\* cc_types.go
validAgentSetKeys ==
    {<<"status">>, <<"state">>, <<"contact">>, <<"type">>, <<"max_no_answer">>,
     <<"wrap_up_time">>, <<"reject_delay_time">>, <<"busy_delay_time">>, <<"ready_time">>}

\* a variant of validTierSetKeys that also admits the key "queue"
validTierSetKeysWithQueue == {<<"state">>, <<"level">>, <<"position">>, <<"queue">>}

validTierSetKeys == {<<"state">>, <<"level">>, <<"position">>}

\* a variant of agentDomainCheck that does not require the domain
agentDomainCheckOptional(a, domain) ==
    IF domain # <<>> THEN validateCCDomainRaw(a, domain, <<"Agent">>)
    ELSE [ok |-> TRUE, resp |-> NoResp]

\* the tenant check shared by the agent write handlers: the body's domain is
\* required under restriction and is checked whenever it is given
agentDomainCheck(a, domain) ==
    IF domain = <<>> /\ ~isUnrestrictedAccess(a)
    THEN [ok |-> FALSE, resp |-> respondError(<<"domain is required for authorization">>, 400)]
    ELSE IF domain # <<>> THEN validateCCDomainRaw(a, domain, <<"Agent">>)
    ELSE [ok |-> TRUE, resp |-> NoResp]

AgentDomains == {<<>>, TenantA, TenantB}

AgentAddBodies ==
    {[ok |-> FALSE, name |-> <<>>, type |-> <<>>, domain |-> <<>>]}
    \cup {[ok |-> TRUE, name |-> <<>>, type |-> <<"callback">>, domain |-> TenantB],
          [ok |-> TRUE, name |-> AgentNone, type |-> <<>>, domain |-> TenantB],
          [ok |-> TRUE, name |-> AgentNone, type |-> <<"robot">>, domain |-> TenantA]}
    \cup {[ok |-> TRUE, name |-> AgentNone, type |-> t, domain |-> d] :
             t \in {<<"callback">>, <<"uuid-standby">>}, d \in AgentDomains}

CCAddAgent ==
    /\ pc = "route"
    /\ \E body \in AgentAddBodies :
          LET v == agentDomainCheck(auth, body.domain)
          IN  /\ req' = [NoReq EXCEPT !.handler = "CCAddAgent", !.bodyOk = body.ok,
                                      !.name = body.name, !.type = body.type,
                                      !.domain = body.domain]
              /\ IF ~body.ok THEN reject400(<<"Invalid request body">>)
                 ELSE IF body.name = <<>> THEN reject400(<<"name is required">>)
                 ELSE IF body.type = <<>> THEN reject400(<<"type is required">>)
                 ELSE IF body.type \notin {<<"callback">>, <<"uuid-standby">>}
                 THEN reject400(<<"type must be 'callback' or 'uuid-standby'">>)
                 ELSE IF ~v.ok THEN deny(v.resp)
                 ELSE sendAndRespond(CCCommand(<<"agent", " ", "add", " ">> \o body.name
                                                   \o <<" ">> \o body.type),
                                     <<"Failed to add agent">>,
                                     <<"Agent", " ">> \o body.name \o <<" ", "added with type", " ">>
                                         \o body.type)
    /\ UNCHANGED <<bvars, pvars, evars, hdr, auth, callInfo, lookups, local>>

AgentNames == {AgentA, AgentB}

AgentDelBodies == {[ok |-> FALSE, domain |-> <<>>]}
                  \cup {[ok |-> TRUE, domain |-> d] : d \in AgentDomains}

CCDeleteAgent ==
    /\ pc = "route"
    /\ \E agentName \in AgentNames, body \in AgentDelBodies :
          LET v == agentDomainCheck(auth, body.domain)
          IN  /\ req' = [NoReq EXCEPT !.handler = "CCDeleteAgent", !.bodyOk = body.ok,
                                      !.agent = agentName, !.domain = body.domain]
              /\ IF ~body.ok /\ ~isUnrestrictedAccess(auth)
                 THEN reject400(<<"Invalid request body", ":", " ",
                                  "domain is required for authorization">>)
                 ELSE IF ~v.ok THEN deny(v.resp)
                 ELSE sendAndRespond(CCCommand(<<"agent", " ", "del", " ">> \o agentName),
                                     <<"Failed to delete agent">>,
                                     <<"Agent", " ">> \o agentName \o <<" ", "deleted">>)
    /\ UNCHANGED <<bvars, pvars, evars, hdr, auth, callInfo, lookups, local>>

AgentSetBodies ==
    {[ok |-> FALSE, key |-> <<>>, value |-> <<>>, domain |-> <<>>],
     [ok |-> TRUE, key |-> <<>>, value |-> <<"x">>, domain |-> TenantB],
     [ok |-> TRUE, key |-> <<"password">>, value |-> <<"x">>, domain |-> TenantB]}
    \cup {[ok |-> TRUE, key |-> <<"status">>, value |-> <<"Available">>, domain |-> d] :
             d \in AgentDomains}
    \cup {[ok |-> TRUE, key |-> <<"contact">>, value |-> ContactOf(AgentA), domain |-> TenantA]}

CCSetAgent ==
    /\ pc = "route"
    /\ \E agentName \in AgentNames, body \in AgentSetBodies :
          LET v == agentDomainCheck(auth, body.domain)
          IN  /\ req' = [NoReq EXCEPT !.handler = "CCSetAgent", !.bodyOk = body.ok,
                                      !.agent = agentName, !.key = body.key,
                                      !.value = body.value, !.domain = body.domain]
              /\ IF ~body.ok THEN reject400(<<"Invalid request body">>)
                 ELSE IF body.key = <<>> THEN reject400(<<"key is required">>)
                 ELSE IF body.key \notin validAgentSetKeys
                 THEN reject400(<<"invalid key", " ", "'">> \o body.key \o <<"'">>)
                 ELSE IF ~v.ok THEN deny(v.resp)
                 ELSE sendAndRespond(CCCommand(<<"agent", " ", "set", " ">> \o body.key \o <<" ">>
                                                   \o agentName \o <<" ", "'">> \o body.value \o <<"'">>),
                                     <<"Failed to set agent", " ">> \o body.key,
                                     <<"Agent", " ">> \o agentName \o <<" ">> \o body.key
                                         \o <<" ", "set to", " ", "'">> \o body.value \o <<"'">>)
    /\ UNCHANGED <<bvars, pvars, evars, hdr, auth, callInfo, lookups, local>>

CCListTiers ==
    ListAll("CCListTiers", <<"tier", " ", "list">>, TierListReplies, <<"Failed to list tiers">>,
            <<"queue">>)

TierAddBodies ==
    {[ok |-> FALSE, queue |-> <<>>, agent |-> <<>>, level |-> <<>>, position |-> <<>>],
     [ok |-> TRUE, queue |-> <<>>, agent |-> AgentA, level |-> <<>>, position |-> <<>>],
     [ok |-> TRUE, queue |-> QueueB, agent |-> <<>>, level |-> <<>>, position |-> <<>>]}
    \cup {[ok |-> TRUE, queue |-> q, agent |-> AgentA, level |-> <<>>, position |-> <<>>] :
             q \in QueueNames}
    \cup {[ok |-> TRUE, queue |-> QueueA, agent |-> AgentB, level |-> <<"2">>, position |-> <<"1">>],
          [ok |-> TRUE, queue |-> QueueA, agent |-> AgentB, level |-> <<>>, position |-> <<"3">>]}

CCAddTier ==
    /\ pc = "route"
    /\ \E body \in TierAddBodies :
          LET v == validateCCDomain(auth, body.queue, <<"Queue">>)
              cmd == CCCommand(<<"tier", " ", "add", " ">> \o body.queue \o <<" ">> \o body.agent
                         \o (IF body.level # <<>> THEN <<" ">> \o body.level ELSE <<>>)
                         \o (IF body.position # <<>> THEN <<" ">> \o body.position ELSE <<>>))
          IN  /\ req' = [NoReq EXCEPT !.handler = "CCAddTier", !.bodyOk = body.ok,
                                      !.queue = body.queue, !.agent = body.agent,
                                      !.level = body.level, !.position = body.position]
              /\ IF ~body.ok THEN reject400(<<"Invalid request body">>)
                 ELSE IF body.queue = <<>> THEN reject400(<<"queue is required">>)
                 ELSE IF body.agent = <<>> THEN reject400(<<"agent is required">>)
                 ELSE IF ~v.ok THEN deny(v.resp)
                 ELSE sendAndRespond(cmd, <<"Failed to add tier">>,
                                     <<"Tier added", ":", " ", "agent", " ">> \o body.agent
                                         \o <<" ", "to queue", " ">> \o body.queue)
    /\ UNCHANGED <<bvars, pvars, evars, hdr, auth, callInfo, lookups, local>>

TierDelBodies ==
    {[ok |-> FALSE, queue |-> <<>>, agent |-> <<>>],
     [ok |-> TRUE, queue |-> <<>>, agent |-> AgentA],
     [ok |-> TRUE, queue |-> QueueB, agent |-> <<>>]}
    \cup {[ok |-> TRUE, queue |-> q, agent |-> AgentA] : q \in QueueNames}

CCDeleteTier ==
    /\ pc = "route"
    /\ \E body \in TierDelBodies :
          LET v == validateCCDomain(auth, body.queue, <<"Queue">>)
          IN  /\ req' = [NoReq EXCEPT !.handler = "CCDeleteTier", !.bodyOk = body.ok,
                                      !.queue = body.queue, !.agent = body.agent]
              /\ IF ~body.ok THEN reject400(<<"Invalid request body">>)
                 ELSE IF body.queue = <<>> THEN reject400(<<"queue is required">>)
                 ELSE IF body.agent = <<>> THEN reject400(<<"agent is required">>)
                 ELSE IF ~v.ok THEN deny(v.resp)
                 ELSE sendAndRespond(CCCommand(<<"tier", " ", "del", " ">> \o body.queue
                                                   \o <<" ">> \o body.agent),
                                     <<"Failed to delete tier">>,
                                     <<"Tier deleted", ":", " ", "agent", " ">> \o body.agent
                                         \o <<" ", "from queue", " ">> \o body.queue)
    /\ UNCHANGED <<bvars, pvars, evars, hdr, auth, callInfo, lookups, local>>

TierSetBodies ==
    {[ok |-> FALSE, queue |-> <<>>, agent |-> <<>>, key |-> <<>>, value |-> <<>>],
     [ok |-> TRUE, queue |-> <<>>, agent |-> AgentA, key |-> <<"level">>, value |-> <<"2">>],
     [ok |-> TRUE, queue |-> QueueB, agent |-> <<>>, key |-> <<"level">>, value |-> <<"2">>],
     [ok |-> TRUE, queue |-> QueueB, agent |-> AgentA, key |-> <<>>, value |-> <<"2">>],
     [ok |-> TRUE, queue |-> QueueB, agent |-> AgentA, key |-> <<"queue">>, value |-> <<"2">>]}
    \cup {[ok |-> TRUE, queue |-> q, agent |-> AgentA, key |-> <<"level">>, value |-> <<"2">>] :
             q \in QueueNames}

CCSetTier ==
    /\ pc = "route"
    /\ \E body \in TierSetBodies :
          LET v == validateCCDomain(auth, body.queue, <<"Queue">>)
          IN  /\ req' = [NoReq EXCEPT !.handler = "CCSetTier", !.bodyOk = body.ok,
                                      !.queue = body.queue, !.agent = body.agent,
                                      !.key = body.key, !.value = body.value]
              /\ IF ~body.ok THEN reject400(<<"Invalid request body">>)
                 ELSE IF body.queue = <<>> THEN reject400(<<"queue is required">>)
                 ELSE IF body.agent = <<>> THEN reject400(<<"agent is required">>)
                 ELSE IF body.key = <<>> THEN reject400(<<"key is required">>)
                 ELSE IF body.key \notin validTierSetKeys
                 THEN reject400(<<"invalid key", " ", "'">> \o body.key \o <<"'">>)
                 ELSE IF ~v.ok THEN deny(v.resp)
                 ELSE sendAndRespond(CCCommand(<<"tier", " ", "set", " ">> \o body.key \o <<" ">>
                                                   \o body.queue \o <<" ">> \o body.agent
                                                   \o <<" ", "'">> \o body.value \o <<"'">>),
                                     <<"Failed to set tier", " ">> \o body.key,
                                     <<"Tier", " ">> \o body.key \o <<" ", "set to", " ", "'">>
                                         \o body.value \o <<"'", " ", "for agent", " ">> \o body.agent
                                         \o <<" ", "in queue", " ">> \o body.queue)
    /\ UNCHANGED <<bvars, pvars, evars, hdr, auth, callInfo, lookups, local>>

\* JSON document of 'json {"command":"status","data":""}': an object with or
\* without a "response" member, and the member's value
StatusDoc(hasResponse, value) ==
    [rows |-> <<>>, chan |-> <<>>, response |-> hasResponse, value |-> value]

\* json.Unmarshal into interface{} followed by json.Encoder.Encode: null and
\* strings keep their value, every number is held as a float64 in between.
\* A float64 has a 53-bit significand: integers up to 2^53 =
\* 9007199254740992 are exact; the integers above it and below 2^54 are
\* rounded to the nearest even integer, a tie going to the multiple of 4
\* (round half to even). An integral float64 below 10^21 is encoded as its
\* decimal digits. Literals of 2^54 or more are outside the modelled inputs.
Reencode(v) ==
    LET base == 100000000
        exact == v.hi < 90071992 \/ (v.hi = 90071992 /\ v.lo <= 54740992)
        up == IF v.lo + 1 = base THEN JNumber(v.hi + 1, 0) ELSE JNumber(v.hi, v.lo + 1)
        down == JNumber(v.hi, v.lo - 1)
    IN  IF v.t # "number" THEN v
        ELSE IF exact \/ v.lo % 2 = 0 THEN v
        ELSE IF (v.lo + 1) % 4 = 0 THEN up
        ELSE down

StatusCmd == <<"api", " ", "json", " ", "{\"command\":\"status\",\"data\":\"\"}">>

\* values of the "response" member: text, null, a small count, 2^53 and the
\* three integers that follow it
StatusValues ==
    {JString(<<"UP">>), JNull, JNumber(0, 12), JNumber(90071992, 54740992),
     JNumber(90071992, 54740993), JNumber(90071992, 54740994), JNumber(90071992, 54740995)}

StatusReplies ==
    {Json(StatusDoc(TRUE, v)) : v \in StatusValues}
        \cup {Json(StatusDoc(FALSE, JNull)), Text(<<"UP">>)}

\* GET /v1/status
GetStatus ==
    /\ pc = "route"
    /\ req' = [NoReq EXCEPT !.handler = "GetStatus"]
    /\ \E o \in Outcomes(StatusReplies) :
          LET r == SendCommand(StatusCmd, o)
          IN  /\ Issue(StatusCmd, r)
              /\ local' = [local EXCEPT !.fsResponse = r.out]
              /\ resp' = IF r.err # NoError
                         THEN respondError(<<"Failed to get FreeSWITCH status", ":", " ">> \o r.err,
                                           getErrorStatusCode(r.err))
                         ELSE IF r.out.kind # "json"
                         THEN respondError(<<"Failed to parse FreeSWITCH JSON response">>, 500)
                         ELSE IF ~r.out.doc.response
                         THEN respondError(<<"FreeSWITCH response missing 'response' field">>, 500)
                         ELSE [NoResp EXCEPT !.status = 200, !.kind = "data",
                                             !.data = Reencode(r.out.doc.value)]
    /\ pc' = "done"
    /\ UNCHANGED <<bvars, pvars, evars, hdr, auth, callInfo, lookups>>

\* GET /health: any error of the probe command is reported as 503
HealthCheck ==
    /\ pc = "route"
    /\ req' = [NoReq EXCEPT !.handler = "HealthCheck"]
    /\ \E o \in Outcomes({Text(<<"UP">>)}) :
          LET r == SendCommand(<<"api", " ", "status">>, o)
          IN  /\ Issue(<<"api", " ", "status">>, r)
              /\ resp' = IF r.err # NoError
                         THEN [NoResp EXCEPT !.status = 503, !.kind = "health",
                                             !.message = <<"unhealthy">>]
                         ELSE [NoResp EXCEPT !.status = 200, !.kind = "health",
                                             !.message = <<"healthy">>]
    /\ pc' = "done"
    /\ UNCHANGED <<bvars, pvars, evars, hdr, auth, callInfo, lookups, local>>

Next ==
    \/ Receive
    \/ contextAuthMiddleware
    \/ HangupCall
    \/ TransferCall
    \/ AnswerCall
    \/ ControlHold
    \/ ControlRecording
    \/ SendDTMF
    \/ ParkCall
    \/ BridgeCalls
    \/ OriginateCall
    \/ GetCallDetails
    \/ GetStatus
    \/ HealthCheck
    \/ CCListQueues
    \/ CCCountQueues
    \/ CCListQueueAgents
    \/ CCListQueueMembers
    \/ CCListQueueTiers
    \/ CCCountQueueAgents
    \/ CCCountQueueMembers
    \/ CCCountQueueTiers
    \/ CCLoadQueue
    \/ CCUnloadQueue
    \/ CCReloadQueue
    \/ CCListAgents
    \/ CCAddAgent
    \/ CCDeleteAgent
    \/ CCSetAgent
    \/ CCListTiers
    \/ CCAddTier
    \/ CCDeleteTier
    \/ CCSetTier

Spec == Init /\ [][Next]_vars

----------------------------------------------------------------------------
(* Scope derivation over every declaration: the X-Allowed-Contexts header  *)
(* is any string of at most MaxHdrLen symbols, and the request is then     *)
(* served by a handler that reads the scope.                               *)

HeaderSymbols == {"a", "b", ",", "*", " "}

Declarations == UNION {[1..n -> HeaderSymbols] : n \in 0..MaxHdrLen}

\* a request arrives with any declaration
ReceiveDeclared ==
    /\ pc \in {"idle", "done"}
    /\ \E h \in Declarations : hdr' = h
    /\ pc' = "middleware"
    /\ auth' = NoAuth
    /\ req' = NoReq
    /\ callInfo' = NoCallInfo
    /\ lookups' = <<>>
    /\ issued' = <<>>
    /\ sent' = <<>>
    /\ errs' = <<>>
    /\ local' = NoLocal
    /\ resp' = NoResp
    /\ UNCHANGED <<bvars, pvars, evars>>

NextScope ==
    \/ ReceiveDeclared
    \/ contextAuthMiddleware
    \/ CCLoadQueue
    \/ CCCountQueues
    \/ CCDeleteAgent
    \/ OriginateCall

SpecScope == Init /\ [][NextScope]_vars


----------------------------------------------------------------------------
(* esl.go: the session under concurrent callers.  Every request goroutine  *)
(* that calls SendCommand is a caller; eslgo.Dial and conn.SendCommand     *)
(* block, so each is entered by one step and left by another.              *)

\* SendCommand is called (line 64); every invocation dials at most once, so
\* the dial budget covers the callers that may still dial
SendCommandCall(t) ==
    /\ tpc[t] = "idle"
    /\ dials + Cardinality({u \in Callers : tpc[u] \in {"getConnection", "locked"}}) < MaxDials
    /\ tpc' = [tpc EXCEPT ![t] = "getConnection"]
    /\ tconn' = [tconn EXCEPT ![t] = 0]
    /\ tres' = [tres EXCEPT ![t] = "none"]
    /\ UNCHANGED <<bvars, pvars, hvars, mu, conn, live, dials, closeCalls, cb, cpc>>

\* a variant of getConnectionLock that enters getConnection without waiting
\* for the mutex
getConnectionLockUnguarded(t) ==
    /\ tpc[t] = "getConnection"
    /\ mu' = <<"caller", t>>
    /\ tpc' = [tpc EXCEPT ![t] = "locked"]
    /\ UNCHANGED <<bvars, pvars, hvars, conn, live, dials, closeCalls, tconn, tres, cb, cpc>>

\* getConnection: esl.mu.Lock()
getConnectionLock(t) ==
    /\ tpc[t] = "getConnection"
    /\ mu = Free
    /\ mu' = <<"caller", t>>
    /\ tpc' = [tpc EXCEPT ![t] = "locked"]
    /\ UNCHANGED <<bvars, pvars, hvars, conn, live, dials, closeCalls, tconn, tres, cb, cpc>>

\* getConnection: the cached connection is returned, the deferred Unlock runs
getConnectionReuse(t) ==
    /\ tpc[t] = "locked"
    /\ conn # 0
    /\ tconn' = [tconn EXCEPT ![t] = conn]
    /\ mu' = Free
    /\ tpc' = [tpc EXCEPT ![t] = "send"]
    /\ UNCHANGED <<bvars, pvars, hvars, conn, live, dials, closeCalls, tres, cb, cpc>>

\* getConnection: no cached connection, eslgo.Dial is entered with the mutex held
getConnectionDial(t) ==
    /\ tpc[t] = "locked"
    /\ conn = 0
    /\ dials' = dials + 1
    /\ tpc' = [tpc EXCEPT ![t] = "dialing"]
    /\ UNCHANGED <<bvars, pvars, hvars, mu, conn, live, closeCalls, tconn, tres, cb, cpc>>

\* eslgo.Dial returns a connection: it is cached and returned
DialSucceeds(t) ==
    /\ tpc[t] = "dialing"
    /\ live' = live \cup {dials}
    /\ conn' = dials
    /\ tconn' = [tconn EXCEPT ![t] = dials]
    /\ mu' = Free
    /\ tpc' = [tpc EXCEPT ![t] = "send"]
    /\ UNCHANGED <<bvars, pvars, hvars, dials, closeCalls, tres, cb, cpc>>

\* a variant of DialFails that returns the error without releasing the mutex
DialFailsKeepLocked(t) ==
    /\ tpc[t] = "dialing"
    /\ tres' = [tres EXCEPT ![t] = "ESL connection failed"]
    /\ tpc' = [tpc EXCEPT ![t] = "returned"]
    /\ UNCHANGED <<bvars, pvars, hvars, mu, conn, live, dials, closeCalls, tconn, cb, cpc>>

\* eslgo.Dial fails: "ESL connection failed" is returned by SendCommand
DialFails(t) ==
    /\ tpc[t] = "dialing"
    /\ mu' = Free
    /\ tres' = [tres EXCEPT ![t] = "ESL connection failed"]
    /\ tpc' = [tpc EXCEPT ![t] = "returned"]
    /\ UNCHANGED <<bvars, pvars, hvars, conn, live, dials, closeCalls, tconn, cb, cpc>>

\* conn.SendCommand(ctx, apiCmd) is entered: the command is in flight on the
\* handle getConnection returned, whatever has happened to that handle since
Transmit(t) ==
    /\ tpc[t] = "send"
    /\ tpc' = [tpc EXCEPT ![t] = "sending"]
    /\ UNCHANGED <<bvars, pvars, hvars, mu, conn, live, dials, closeCalls, tconn, tres, cb, cpc>>

\* the reply arrives; only a connection that is still open can deliver one
ReplyOk(t) ==
    /\ tpc[t] = "sending"
    /\ tconn[t] \in live
    /\ tres' = [tres EXCEPT ![t] = "ok"]
    /\ tpc' = [tpc EXCEPT ![t] = "returned"]
    /\ UNCHANGED <<bvars, pvars, hvars, mu, conn, live, dials, closeCalls, tconn, cb, cpc>>

\* a variant of ReplyErr that treats the -ERR reply like a failed
\* transmission: the cached connection is closed and cleared
ReplyErrInvalidates(t) ==
    /\ tpc[t] = "sending"
    /\ tconn[t] \in live
    /\ IF conn # 0
       THEN /\ live' = live \ {conn}
            /\ closeCalls' = [closeCalls EXCEPT ![conn] = @ + 1]
            /\ conn' = 0
       ELSE UNCHANGED <<live, closeCalls, conn>>
    /\ tres' = [tres EXCEPT ![t] = "ESL error"]
    /\ tpc' = [tpc EXCEPT ![t] = "returned"]
    /\ UNCHANGED <<bvars, pvars, hvars, mu, dials, tconn, cb, cpc>>

\* the reply's Reply-Text starts with -ERR: "ESL error" is returned
ReplyErr(t) ==
    /\ tpc[t] = "sending"
    /\ tconn[t] \in live
    /\ tres' = [tres EXCEPT ![t] = "ESL error"]
    /\ tpc' = [tpc EXCEPT ![t] = "returned"]
    /\ UNCHANGED <<bvars, pvars, hvars, mu, conn, live, dials, closeCalls, tconn, cb, cpc>>

\* conn.SendCommand returns an error (transport failure or the 10 s timeout)
TransmitFails(t) ==
    /\ tpc[t] = "sending"
    /\ tpc' = [tpc EXCEPT ![t] = "failed"]
    /\ UNCHANGED <<bvars, pvars, hvars, mu, conn, live, dials, closeCalls, tconn, tres, cb, cpc>>

\* failure path: esl.mu.Lock()
InvalidateLock(t) ==
    /\ tpc[t] = "failed"
    /\ mu = Free
    /\ mu' = <<"caller", t>>
    /\ tpc' = [tpc EXCEPT ![t] = "clearing"]
    /\ UNCHANGED <<bvars, pvars, hvars, conn, live, dials, closeCalls, tconn, tres, cb, cpc>>

\* a variant of InvalidateClear that closes the cached connection and keeps
\* it cached
InvalidateClearKeepCached(t) ==
    /\ tpc[t] = "clearing"
    /\ IF conn # 0
       THEN /\ live' = live \ {conn}
            /\ closeCalls' = [closeCalls EXCEPT ![conn] = @ + 1]
       ELSE UNCHANGED <<live, closeCalls>>
    /\ mu' = Free
    /\ tres' = [tres EXCEPT ![t] = "ESL command failed"]
    /\ tpc' = [tpc EXCEPT ![t] = "returned"]
    /\ UNCHANGED <<bvars, pvars, hvars, conn, dials, tconn, cb, cpc>>

\* a variant of InvalidateClear that starts SendCommand over after clearing
\* the cached connection
InvalidateClearRetry(t) ==
    /\ tpc[t] = "clearing"
    /\ IF conn # 0
       THEN /\ live' = live \ {conn}
            /\ closeCalls' = [closeCalls EXCEPT ![conn] = @ + 1]
            /\ conn' = 0
       ELSE UNCHANGED <<live, closeCalls, conn>>
    /\ mu' = Free
    /\ tres' = [tres EXCEPT ![t] = "ESL command failed"]
    /\ tpc' = [tpc EXCEPT ![t] = IF dials < MaxDials THEN "getConnection" ELSE "returned"]
    /\ UNCHANGED <<bvars, pvars, hvars, dials, tconn, cb, cpc>>

\* failure path: whatever connection is cached is closed and cleared, the
\* mutex is released and "ESL command failed" is returned
InvalidateClear(t) ==
    /\ tpc[t] = "clearing"
    /\ IF conn # 0
       THEN /\ live' = live \ {conn}
            /\ closeCalls' = [closeCalls EXCEPT ![conn] = @ + 1]
            /\ conn' = 0
       ELSE UNCHANGED <<live, closeCalls, conn>>
    /\ mu' = Free
    /\ tres' = [tres EXCEPT ![t] = "ESL command failed"]
    /\ tpc' = [tpc EXCEPT ![t] = "returned"]
    /\ UNCHANGED <<bvars, pvars, hvars, dials, tconn, cb, cpc>>

\* the handler has taken SendCommand's result; the invocation's locals are gone
SendCommandReturn(t) ==
    /\ tpc[t] = "returned"
    /\ tpc' = [tpc EXCEPT ![t] = "idle"]
    /\ tconn' = [tconn EXCEPT ![t] = 0]
    /\ tres' = [tres EXCEPT ![t] = "none"]
    /\ UNCHANGED <<bvars, pvars, hvars, mu, conn, live, dials, closeCalls, cb, cpc>>

\* the switch disconnects handle h: eslgo closes it and starts the callback
\* registered by getConnection
Disconnect(h) ==
    /\ h \in live
    /\ cb[h] = "none"
    /\ live' = live \ {h}
    /\ cb' = [cb EXCEPT ![h] = "fired"]
    /\ UNCHANGED <<bvars, pvars, hvars, mu, conn, dials, closeCalls, tpc, tconn, tres, cpc>>

\* disconnect callback: esl.mu.Lock()
onDisconnectLock(h) ==
    /\ cb[h] = "fired"
    /\ mu = Free
    /\ mu' = <<"callback", h>>
    /\ cb' = [cb EXCEPT ![h] = "locked"]
    /\ UNCHANGED <<bvars, pvars, hvars, conn, live, dials, closeCalls, tpc, tconn, tres, cpc>>

\* disconnect callback: esl.conn = nil; esl.mu.Unlock()
onDisconnectClear(h) ==
    /\ cb[h] = "locked"
    /\ conn' = 0
    /\ mu' = Free
    /\ cb' = [cb EXCEPT ![h] = "done"]
    /\ UNCHANGED <<bvars, pvars, hvars, live, dials, closeCalls, tpc, tconn, tres, cpc>>

\* the shutdown path calls Close (line 128)
CloseCall ==
    /\ cpc \in {"idle", "returned"}
    /\ cpc' = "called"
    /\ UNCHANGED <<bvars, pvars, hvars, mu, conn, live, dials, closeCalls, tpc, tconn, tres, cb>>

\* Close: esl.mu.Lock()
CloseLock ==
    /\ cpc = "called"
    /\ mu = Free
    /\ mu' = <<"closer", 0>>
    /\ cpc' = "locked"
    /\ UNCHANGED <<bvars, pvars, hvars, conn, live, dials, closeCalls, tpc, tconn, tres, cb>>

\* a variant of CloseClear that closes the cached connection and keeps it
\* cached
CloseClearKeepCached ==
    /\ cpc = "locked"
    /\ IF conn # 0
       THEN /\ live' = live \ {conn}
            /\ closeCalls' = [closeCalls EXCEPT ![conn] = @ + 1]
       ELSE UNCHANGED <<live, closeCalls>>
    /\ mu' = Free
    /\ cpc' = "returned"
    /\ UNCHANGED <<bvars, pvars, hvars, conn, dials, tpc, tconn, tres, cb>>

\* Close: the cached connection, if any, is closed and cleared; Unlock; return nil
CloseClear ==
    /\ cpc = "locked"
    /\ IF conn # 0
       THEN /\ live' = live \ {conn}
            /\ closeCalls' = [closeCalls EXCEPT ![conn] = @ + 1]
            /\ conn' = 0
       ELSE UNCHANGED <<live, closeCalls, conn>>
    /\ mu' = Free
    /\ cpc' = "returned"
    /\ UNCHANGED <<bvars, pvars, hvars, dials, tpc, tconn, tres, cb>>

NextESL ==
    \/ \E t \in Callers : SendCommandCall(t)
    \/ \E t \in Callers : getConnectionLock(t)
    \/ \E t \in Callers : getConnectionReuse(t)
    \/ \E t \in Callers : getConnectionDial(t)
    \/ \E t \in Callers : DialSucceeds(t)
    \/ \E t \in Callers : DialFails(t)
    \/ \E t \in Callers : Transmit(t)
    \/ \E t \in Callers : ReplyOk(t)
    \/ \E t \in Callers : ReplyErr(t)
    \/ \E t \in Callers : TransmitFails(t)
    \/ \E t \in Callers : InvalidateLock(t)
    \/ \E t \in Callers : InvalidateClear(t)
    \/ \E t \in Callers : SendCommandReturn(t)
    \/ \E h \in Handles : Disconnect(h)
    \/ \E h \in Handles : onDisconnectLock(h)
    \/ \E h \in Handles : onDisconnectClear(h)
    \/ CloseCall
    \/ CloseLock
    \/ CloseClear

SpecESL == Init /\ [][NextESL]_vars

\* The session under fair scheduling.  Every goroutine that can take a step
\* of its own takes it; eslgo.Dial and conn.SendCommand return (both run
\* under a timeout); a goroutine waiting in esl.mu.Lock() gets the mutex if
\* it is released again and again (sync.Mutex hands a starving waiter the
\* mutex).  Nothing obliges a request to call SendCommand, the shutdown to
\* call Close, or the switch to disconnect.
SpecESLFair ==
    /\ SpecESL
    /\ \A t \in Callers :
          /\ SF_vars(getConnectionLock(t) \/ InvalidateLock(t))
          /\ WF_vars(getConnectionReuse(t) \/ getConnectionDial(t))
          /\ WF_vars(DialSucceeds(t) \/ DialFails(t))
          /\ WF_vars(Transmit(t))
          /\ WF_vars(ReplyOk(t) \/ ReplyErr(t) \/ TransmitFails(t))
          /\ WF_vars(InvalidateClear(t))
    /\ \A h \in Handles :
          /\ SF_vars(onDisconnectLock(h))
          /\ WF_vars(onDisconnectClear(h))
    /\ SF_vars(CloseLock)
    /\ WF_vars(CloseClear)

----------------------------------------------------------------------------
(* The reply parsers of middleware.go applied to every text of at most     *)
(* MaxLines lines                                                          *)

\* lines of a reply: headers, rows, blank lines, acknowledgements, integers
\* and other text
ParserLines ==
    { <<"a", "|", "b", "|", "c">>,
      <<"a", "|", "a">>,
      <<" ", "a", " ", "|", "b">>,
      <<"1", "|", "2">>,
      <<"1", "|", "2", "|", "3", "|", "4">>,
      <<" ", "3", " ", "|", "4", " ">>,
      <<>>,
      <<" ">>,
      <<"+OK">>,
      <<"+OK", " ", "1">>,
      <<"1", "2">>,
      <<"-", "7">>,
      <<"+", "5">>,
      <<"x">> }

\* contact strings: an optional text before the key, a value of zero to two
\* characters, and an optional character with a tail after the value
ContactInputs ==
    {before \o DomainNameKey \o value \o after :
        before \in {<<>>, <<"{">>, <<"{", "x", "=", "1", ",">>},
        value \in {<<>>, <<"a">>, <<"a", "b">>},
        after \in {<<>>} \cup {<<c, "b">> : c \in {"{", ",", " ", "}", "'", "\"", "/"}}}
        \cup {<<"{", "x", "=", "1", "}", "u">>}

ParserInputs ==
    {Join(ls, <<"\n">>) : ls \in UNION {[1..k -> ParserLines] : k \in 0..MaxLines}}
        \cup ContactInputs

InitParse ==
    /\ InitServer
    /\ input \in ParserInputs
    /\ output = NoOutput
    /\ NoGate

\* result := ParsePipeDelimited(input)
ApplyParsePipeDelimited ==
    /\ output.fn = "none"
    /\ output' = [NoOutput EXCEPT !.fn = "ParsePipeDelimited", !.rows = ParsePipeDelimited(input)]
    /\ UNCHANGED <<input, hvars, evars, bvars>>

\* n, err := ParsePlainCount(input)
ApplyParsePlainCount ==
    /\ output.fn = "none"
    /\ output' = [NoOutput EXCEPT !.fn = "ParsePlainCount",
                                  !.ok = ParsePlainCount(input).ok,
                                  !.n = ParsePlainCount(input).n]
    /\ UNCHANGED <<input, hvars, evars, bvars>>

\* domain := ExtractDomainFromContact(input)
ApplyExtractDomainFromContact ==
    /\ output.fn = "none"
    /\ output' = [NoOutput EXCEPT !.fn = "ExtractDomainFromContact",
                                  !.domain = ExtractDomainFromContact(input)]
    /\ UNCHANGED <<input, hvars, evars, bvars>>

NextParse ==
    \/ ApplyParsePipeDelimited
    \/ ApplyParsePlainCount
    \/ ApplyExtractDomainFromContact

SpecParse == InitParse /\ [][NextParse]_vars

----------------------------------------------------------------------------
(* The bearer-token gate in front of the handlers: every configuration of  *)
(* tokens, remote address and Authorization header                         *)

TokenConfigs == {<<>>, <<<<"t1">>>>, <<<<"t1">>, <<"t2">>>>, <<<<"t2", " ", "x">>>>}

Loopback4 == <<"127.0.0.1">>

Loopback6 == <<":", ":", "1">>

RemoteAddrs ==
    { Loopback4 \o <<":", "5000">>,
      <<"[">> \o Loopback6 \o <<"]", ":", "5000">>,
      <<"localhost", ":", "5000">>,
      Loopback4,
      Loopback6,
      <<"10.0.0.5", ":", "5000">>,
      <<"127.0.0.2", ":", "5000">>,
      <<"[", ":", ":", "2", "]", ":", "5000">>,
      Loopback6 \o <<":", "5000">> }

AuthorizationHeaders ==
    { <<>>,
      <<"Bearer", " ", "t1">>,
      <<"Bearer", " ", "t2">>,
      <<"Bearer", " ", "t3">>,
      <<"Bearer", " ", "t2", " ", "x">>,
      <<"Bearer", " ", " ", "t1">>,
      <<"Bearer", " ">>,
      <<"Bearer">>,
      <<"bearer", " ", "t1">>,
      <<"Basic", " ", "t1">>,
      <<"t1">> }

\* net.SplitHostPort: the host before the last colon, in brackets when it
\* holds colons itself; an address without a port, with an unbracketed host
\* that holds a colon, or with text between "]" and the port is an error
SplitHostPort(hostport) ==
    LET colons == {i \in 1..Len(hostport) : hostport[i] = ":"}
        last == CHOOSE i \in colons : \A j \in colons : j <= i
    IN  IF colons = {} THEN [err |-> TRUE, host |-> <<>>]
        ELSE IF hostport[1] = "["
        THEN LET ends == {i \in 1..Len(hostport) : hostport[i] = "]"}
             IN  IF ends = {} \/ last - 1 \notin ends \/ Cardinality(ends) > 1
                 THEN [err |-> TRUE, host |-> <<>>]
                 ELSE [err |-> FALSE, host |-> SubSeq(hostport, 2, last - 2)]
        ELSE IF Cardinality(colons) > 1 \/ "]" \in Range(hostport)
        THEN [err |-> TRUE, host |-> <<>>]
        ELSE [err |-> FALSE, host |-> SubSeq(hostport, 1, last - 1)]

isLocalhost(addr) ==
    LET r == SplitHostPort(addr)
        host == IF r.err THEN addr ELSE r.host
    IN  host = Loopback4 \/ host = Loopback6 \/ host = <<"localhost">>

\* the configured tokens are read at start-up
InitBearer ==
    /\ InitServer
    /\ input = <<>>
    /\ output = NoOutput
    /\ allowedTokens \in TokenConfigs
    /\ remoteAddr = <<>>
    /\ authorization = <<>>

\* a request arrives at the gate; the previous one has been answered
Accept ==
    /\ pc \in {"idle", "handler", "done"}
    /\ remoteAddr' \in RemoteAddrs
    /\ authorization' \in AuthorizationHeaders
    /\ pc' = "bearer"
    /\ resp' = NoResp
    /\ UNCHANGED <<allowedTokens, pvars, evars, hdr, auth, req, callInfo, lookups, issued, sent,
                   errs, local>>

\* http.Error with status 401
unauthorized(message) ==
    /\ resp' = respondError(message, 401)
    /\ pc' = "done"

\* next.ServeHTTP(w, r)
serveNext ==
    /\ pc' = "handler"
    /\ UNCHANGED resp

\* a variant of bearerAuthMiddleware that accepts any token after "Bearer "
bearerAuthMiddlewareAnyToken ==
    /\ pc = "bearer"
    /\ LET parts == SplitN(authorization, " ", 2)
       IN  IF isLocalhost(remoteAddr) THEN serveNext
           ELSE IF Len(allowedTokens) = 0 THEN serveNext
           ELSE IF authorization = <<>> THEN unauthorized(<<"Missing Authorization header">>)
           ELSE IF Len(parts) # 2 \/ parts[1] # <<"Bearer">>
           THEN unauthorized(<<"Invalid Authorization header format">>)
           ELSE serveNext
    /\ UNCHANGED <<bvars, pvars, evars, hdr, auth, req, callInfo, lookups, issued, sent, errs,
                   local>>

bearerAuthMiddleware ==
    /\ pc = "bearer"
    /\ LET parts == SplitN(authorization, " ", 2)
       IN  IF isLocalhost(remoteAddr) THEN serveNext
           ELSE IF Len(allowedTokens) = 0 THEN serveNext
           ELSE IF authorization = <<>> THEN unauthorized(<<"Missing Authorization header">>)
           ELSE IF Len(parts) # 2 \/ parts[1] # <<"Bearer">>
           THEN unauthorized(<<"Invalid Authorization header format">>)
           ELSE IF \E i \in 1..Len(allowedTokens) : parts[2] = allowedTokens[i]
           THEN serveNext
           ELSE unauthorized(<<"Invalid authentication token">>)
    /\ UNCHANGED <<bvars, pvars, evars, hdr, auth, req, callInfo, lookups, issued, sent, errs,
                   local>>

NextBearer ==
    \/ Accept
    \/ bearerAuthMiddleware

SpecBearer == InitBearer /\ [][NextBearer]_vars

----------------------------------------------------------------------------
(* Properties of the authorization scope, checked on Spec *)

\* the request runs under Restricted(S), respectively Unrestricted
Restricted == auth.Set /\ ~auth.Unrestricted

Unrestricted == auth.Set /\ auth.Unrestricted

\* S, the tenants of the request's scope
Scope == Range(auth.Contexts)

\* the part of a queue or tier name after its first "@", empty without one
AfterFirstAt(name) ==
    IF \E i \in 1..Len(name) : name[i] = "@"
    THEN LET i == CHOOSE j \in 1..Len(name) : name[j] = "@" /\ \A k \in 1..(j - 1) : name[k] # "@"
         IN  SubSeq(name, i + 1, Len(name))
    ELSE <<>>

\* the rows of a call list that a UUID addresses, by uuid or by b_uuid
Matches(rows, u) == {i \in 1..Len(rows) : rows[i].uuid = u \/ rows[i].b_uuid = u}

CallScopedHandlers ==
    {"HangupCall", "TransferCall", "AnswerCall", "ControlHold", "ControlRecording",
     "SendDTMF", "ParkCall"}

\* a command other than the call-list lookup was handed to the session
OperationIssued == \E i \in 1..Len(issued) : issued[i] # ShowCallsCmd

\* C1: in the call-addressed handlers, under Restricted(S), the operation
\* command is handed to the session only after a "show calls as json" lookup
\* whose rows hold the request's UUID, as uuid or b_uuid, in a row whose
\* accountcode is in S; when the rows that hold the UUID have an accountcode
\* outside S the response is 403 and no operation command is issued.
C1_CallScopedAuthorization ==
    (req.handler \in CallScopedHandlers /\ Restricted) =>
        /\ OperationIssued =>
              /\ issued[1] = ShowCallsCmd
              /\ Len(lookups) = 1
              /\ \E i \in Matches(lookups[1], req.uuid) : lookups[1][i].accountcode \in Scope
        /\ ( /\ Len(lookups) = 1
             /\ Matches(lookups[1], req.uuid) # {}
             /\ \A i \in Matches(lookups[1], req.uuid) : lookups[1][i].accountcode \notin Scope )
           => (resp.status = 403 /\ ~OperationIssued)

\* a restricted request addressed a call by its b_uuid and its operation
\* command was transmitted
C1_Witness ==
    /\ req.handler \in CallScopedHandlers
    /\ Restricted
    /\ req.uuid = U2
    /\ Len(sent) = 2
    /\ sent[2] # ShowCallsCmd
    /\ resp.status = 200

\* the tenant of an agent: the domain_name token of its contact
AgentTenant(agent) == ExtractDomainFromContact(ContactOf(agent))

IsAgentMutation(cmd) ==
    LET w == Split(cmd, " ")
    IN  /\ Len(w) >= 5
        /\ w[2] = <<"callcenter_config">>
        /\ w[3] = <<"agent">>
        /\ w[4] \in {<<"del">>, <<"set">>}

\* the agent that "agent del <agent>" or "agent set <key> <agent> '<value>'" names
MutatedAgent(cmd) ==
    LET w == Split(cmd, " ")
    IN  IF w[4] = <<"del">> THEN w[5] ELSE w[6]

\* C2: under Restricted(S) no "agent del" or "agent set" command is sent to
\* the switch for an agent whose tenant, the domain_name token of its contact,
\* is outside S.
C2_AgentMutationIsolation ==
    Restricted =>
        \A i \in 1..Len(sent) :
            IsAgentMutation(sent[i]) => AgentTenant(MutatedAgent(sent[i])) \in Scope

\* the row of the call list that a leg of the response belongs to is in S
LegInScope(leg) ==
    leg.present =>
        \E i \in Matches(lookups[Len(lookups)], leg.uuid) :
            lookups[Len(lookups)][i].accountcode \in Scope

\* C3: under Restricted(S) a successful GetCallDetails response holds no
\* call_info, aleg or bleg of a call whose accountcode is outside S.
C3_CallDetailsIsolation ==
    (req.handler = "GetCallDetails" /\ Restricted /\ resp.kind = "details") =>
        /\ resp.call_info.accountcode \in Scope
        /\ LegInScope(resp.aleg)
        /\ LegInScope(resp.bleg)

QueueTierHandlers ==
    {"CCLoadQueue", "CCUnloadQueue", "CCReloadQueue", "CCAddTier", "CCDeleteTier", "CCSetTier",
     "CCListQueueAgents", "CCListQueueMembers", "CCListQueueTiers",
     "CCCountQueueAgents", "CCCountQueueMembers", "CCCountQueueTiers"}

\* the body of a tier write request fails the validation that precedes the
\* tenant check
TierBodyRejected ==
    /\ req.handler \in {"CCAddTier", "CCDeleteTier", "CCSetTier"}
    /\ \/ ~req.bodyOk
       \/ req.queue = <<>>
       \/ req.agent = <<>>
       \/ req.handler = "CCSetTier" /\ req.key \notin validTierSetKeys

\* C4: in the queue and tier handlers, under Restricted(S), a command is
\* handed to the session only if the part of the queue name after its first
\* "@" is in S; otherwise nothing is issued, no connection is attempted, and
\* the response of a request whose body passed validation is 403.
C4_QueueTenantAuthorization ==
    (req.handler \in QueueTierHandlers /\ Restricted) =>
        /\ issued # <<>> =>
              /\ AfterFirstAt(req.queue) \in Scope
              /\ \A i \in 1..Len(issued) : Split(issued[i], " ")[2] = <<"callcenter_config">>
        /\ AfterFirstAt(req.queue) \notin Scope =>
              /\ issued = <<>>
              /\ sent = <<>>
              /\ ~TierBodyRejected => resp.status = 403

\* a restricted tier write with a valid body names a queue of another tenant
\* and is refused
C4_Witness ==
    /\ req.handler = "CCAddTier"
    /\ Restricted
    /\ Scope = {TenantA}
    /\ req.queue = QueueAB
    /\ ~TierBodyRejected
    /\ resp.status = 403
    /\ issued = <<>>

AgentWriteHandlers == {"CCAddAgent", "CCDeleteAgent", "CCSetAgent"}

\* the body of an agent write request fails the validation that precedes
\* the tenant check
AgentBodyRejected ==
    \/ /\ req.handler = "CCAddAgent"
       /\ \/ ~req.bodyOk
          \/ req.name = <<>>
          \/ req.type \notin {<<"callback">>, <<"uuid-standby">>}
    \/ /\ req.handler = "CCSetAgent"
       /\ (~req.bodyOk \/ req.key \notin validAgentSetKeys)

\* C5: in CCAddAgent, CCDeleteAgent and CCSetAgent, under Restricted(S), a
\* request without a domain is answered 400, one whose domain is outside S
\* is answered 403, and neither issues an "agent" command; under
\* Unrestricted the domain is not required and the command is issued
\* whatever the domain is.
C5_AgentDomainRequired ==
    req.handler \in AgentWriteHandlers =>
        /\ Restricted =>
              /\ (req.domain = <<>> \/ req.domain \notin Scope) => issued = <<>>
              /\ ~AgentBodyRejected =>
                    /\ req.domain = <<>> => resp.status = 400
                    /\ (req.domain # <<>> /\ req.domain \notin Scope) => resp.status = 403
        /\ (Unrestricted /\ ~AgentBodyRejected) =>
              /\ Len(issued) = 1
              /\ Split(issued[1], " ")[3] = <<"agent">>
              /\ resp.status \notin {400, 403}

\* a restricted agent deletion declares a domain outside the scope and is
\* refused
C5_Witness ==
    /\ req.handler = "CCDeleteAgent"
    /\ Restricted
    /\ req.domain = TenantB
    /\ TenantB \notin Scope
    /\ resp.status = 403
    /\ issued = <<>>

ListHandlers == {"CCListQueues", "CCListTiers", "CCListAgents"}

\* the tenant of a row of a list reply
RowTenant(row) ==
    CASE req.handler = "CCListQueues" -> AfterFirstAt(Get(row, <<"name">>))
      [] req.handler = "CCListTiers"  -> AfterFirstAt(Get(row, <<"queue">>))
      [] OTHER -> ExtractDomainFromContact(Get(row, <<"contact">>))

\* the subsequence of the rows whose tenant is in the scope
InScopeRows(rows) == SelectSeq(rows, LAMBDA row : RowTenant(row) \in Scope)

\* C6: a successful CCListQueues, CCListTiers or CCListAgents response holds,
\* under Restricted(S), exactly the parsed rows of the reply whose tenant is
\* in S, in the switch's order, and under Unrestricted every parsed row;
\* row_count is the number of rows returned.
C6_ListFiltering ==
    (req.handler \in ListHandlers /\ resp.kind = "list") =>
        /\ resp.row_count = Len(resp.rows)
        /\ Restricted => resp.rows = InScopeRows(ParsePipeDelimited(local.response))
        /\ Unrestricted => resp.rows = ParsePipeDelimited(local.response)

\* a restricted list returned some of the parsed rows and dropped others
C6_Witness ==
    /\ req.handler \in ListHandlers
    /\ Restricted
    /\ resp.kind = "list"
    /\ Len(resp.rows) >= 2
    /\ Len(resp.rows) < Len(ParsePipeDelimited(local.response))

QueueCountCmd == CCCommand(<<"queue", " ", "count">>)

QueueListCmd == CCCommand(<<"queue", " ", "list">>)

\* C7: CCCountQueues under Restricted(S) issues "queue list", never "queue
\* count", and returns the number of parsed rows whose tenant is in S; under
\* Unrestricted it issues only "queue count" and returns the integer parsed
\* from the reply.
C7_CountQueues ==
    req.handler = "CCCountQueues" =>
        /\ Restricted =>
              /\ issued = <<QueueListCmd>>
              /\ resp.kind = "count" =>
                    LET parsed == ParsePipeDelimited(local.response)
                    IN  resp.count =
                            Cardinality({i \in 1..Len(parsed) :
                                            AfterFirstAt(Get(parsed[i], <<"name">>)) \in Scope})
        /\ Unrestricted =>
              /\ issued = <<QueueCountCmd>>
              /\ resp.kind = "count" =>
                    ParsePlainCount(local.response) = [ok |-> TRUE, n |-> resp.count]

\* a restricted count returned fewer queues than the switch listed
C7_Witness ==
    /\ req.handler = "CCCountQueues"
    /\ Restricted
    /\ resp.kind = "count"
    /\ resp.count = 2
    /\ Len(ParsePipeDelimited(local.response)) = 3

AllCallHandlers == CallScopedHandlers \cup {"BridgeCalls", "GetCallDetails"}

\* isAllowed(t, S): exact membership, and every tenant under Unrestricted
Accepts(t) == Unrestricted \/ t \in Scope

\* C9: the tenant check is exact string membership in S in each place it is
\* made: the accountcode of the found call, the part of a queue name after
\* its first "@", and the domain or context of a request body.  A checked
\* request is refused with 403 exactly when its tenant is not accepted, and
\* Unrestricted accepts every tenant.
C9_ExactMembership ==
    /\ (req.handler \in AllCallHandlers /\ callInfo.Found) =>
          (resp.status = 403 <=> ~Accepts(callInfo.AccountCode))
    /\ (req.handler \in QueueTierHandlers /\ ~TierBodyRejected) =>
          (resp.status = 403 <=> ~Accepts(AfterFirstAt(req.queue)))
    /\ (req.handler \in AgentWriteHandlers /\ ~AgentBodyRejected /\ req.domain # <<>>) =>
          (resp.status = 403 <=> ~Accepts(req.domain))
    /\ (req.handler = "OriginateCall" /\ req.bodyOk /\ req.aleg # <<>> /\ req.context # <<>>) =>
          (resp.status = 403 <=> ~Accepts(req.context))

\* a tenant that is a proper prefix of the only tenant in S is refused
C9_Witness ==
    /\ req.handler = "CCSetAgent"
    /\ Restricted
    /\ Scope = {TenantAB}
    /\ req.domain = TenantA
    /\ ~AgentBodyRejected
    /\ resp.status = 403

----------------------------------------------------------------------------
(* Scope derivation, checked on SpecScope *)

\* the trimmed, non-empty, comma-separated tokens of a declaration
ScopeTokens(h) == SelectSeq(TrimAll(Split(h, ",")), LAMBDA t : t # <<>>)

HasWildcardToken(h) == \E i \in 1..Len(ScopeTokens(h)) : ScopeTokens(h)[i] = <<"*">>

\* the scope the request context holds is the one the declaration denotes
ScopeDerived ==
    pc \notin {"idle", "middleware"} =>
        /\ auth.Set
        /\ auth.Unrestricted <=> (hdr = <<>> \/ HasWildcardToken(hdr))
        /\ ~auth.Unrestricted => auth.Contexts = ScopeTokens(hdr)

\* no step of a handler changes the scope of the request it serves
ScopeKept == pc \notin {"idle", "middleware", "done"} => auth' = auth

\* C8: an absent or empty declaration yields Unrestricted; a "*" among the
\* trimmed comma-separated tokens yields Unrestricted whatever the other
\* tokens are; any other declaration yields Restricted with exactly the
\* trimmed non-empty tokens; the scope is computed once for a request and
\* is not changed while the request is served.
C8_ScopeDerivation == []ScopeDerived /\ [][ScopeKept]_vars

\* a wildcard that follows a tenant has been derived, and a handler has
\* served a request for a queue of another tenant
C8_Witness ==
    /\ hdr = <<"a", ",", "*">>
    /\ auth.Unrestricted
    /\ auth.Contexts = <<TenantA>>
    /\ pc = "done"
    /\ req.handler = "CCLoadQueue"
    /\ req.queue = QueueB
    /\ resp.status = 200

----------------------------------------------------------------------------
(* Serialization of the session, checked on SpecESL *)

\* the callers whose command is in flight on handle h
InFlight(h) == {t \in Callers : tpc[t] = "sending" /\ tconn[t] = h}

----------------------------------------------------------------------------
(* The session's connection, checked on SpecESL *)

\* caller t enters conn.SendCommand in this step
Transmits(t) == tpc[t] = "send" /\ tpc'[t] = "sending"

\* the handle caller t is about to transmit on is the cached one, and esl.go
\* has not closed it
HandleCurrent(t) == conn = tconn[t] /\ closeCalls[tconn[t]] = 0

\* C11: under any interleaving of SendCommand calls, disconnect callbacks
\* and Close, at most one connection is live, and no SendCommand transmits
\* its command on a handle that has already been closed or cleared.
C11_SessionInvariant ==
    /\ [](Cardinality(live) <= 1)
    /\ [][\A t \in Callers : Transmits(t) => HandleCurrent(t)]_vars

\* caller t leaves the failure path of SendCommand in this step
FailureReturns(t) == tpc[t] = "clearing" /\ tpc'[t] = "returned"

\* the callers whose SendCommand has returned a transmission failure that
\* the handler has not taken yet; tconn is the handle that failed
Failed == {t \in Callers : tres[t] = "ESL command failed"}

\* C12: when the transmission of a SendCommand fails (transport error or the
\* 10 s timeout), the cached connection is closed and set to absent before
\* SendCommand returns its error; the failed handle is never cached again,
\* so an invocation that begins afterwards dials a new connection when it
\* finds none cached and otherwise gets a handle other than the failed one.
C12_ReconnectOnFailure ==
    /\ [][\A t \in Callers : FailureReturns(t) =>
             /\ tres'[t] = "ESL command failed"
             /\ conn' = 0
             /\ conn # 0 => (conn \notin live' /\ closeCalls'[conn] = closeCalls[conn] + 1)]_vars
    /\ [](\A t \in Failed : conn # tconn[t])
    /\ [][\A u \in Callers : (tpc[u] = "locked" /\ tpc'[u] # "locked") =>
             /\ \A t \in Failed \ {u} : tconn'[u] # tconn[t]
             /\ conn = 0 => (tpc'[u] = "dialing" /\ dials' = dials + 1)]_vars

\* caller 1's transmission on handle 1 failed, the handle was closed and
\* cleared, and caller 2's later invocation has dialed handle 2 and sends on it
C12_Witness ==
    /\ tres[1] = "ESL command failed"
    /\ tconn[1] = 1
    /\ 1 \notin live
    /\ closeCalls[1] = 1
    /\ conn = 2
    /\ tconn[2] = 2
    /\ tpc[2] = "sending"

\* caller t's SendCommand returns the switch's -ERR reply in this step
RemoteErrorReturns(t) ==
    tpc[t] = "sending" /\ tpc'[t] = "returned" /\ tres'[t] = "ESL error"

\* C13: when the switch answers a command with a reply that begins with
\* -ERR, SendCommand returns an error and leaves the cached connection as
\* it was, neither closed nor cleared; an invocation that finds a cached
\* connection takes it without dialing.
C13_RemoteErrorKeepsSession ==
    /\ [][\A t \in Callers : RemoteErrorReturns(t) =>
             (conn' = conn /\ live' = live /\ closeCalls' = closeCalls)]_vars
    /\ [][\A u \in Callers : (tpc[u] = "locked" /\ tpc'[u] # "locked" /\ conn # 0) =>
             (tpc'[u] = "send" /\ tconn'[u] = conn /\ conn' = conn /\ dials' = dials)]_vars

\* caller 1 got a -ERR reply on handle 1; the handle is still cached and
\* open, and caller 2's later invocation sends on it after a single dial
C13_Witness ==
    /\ tres[1] = "ESL error"
    /\ tpc[1] = "returned"
    /\ tconn[1] = 1
    /\ conn = 1
    /\ 1 \in live
    /\ closeCalls[1] = 0
    /\ tpc[2] = "sending"
    /\ tconn[2] = 1
    /\ dials = 1

----------------------------------------------------------------------------
(* Status codes and the order of checks, checked on Spec *)

\* classes of the error SendCommand returned
DialFailure(e) == HasPrefix(e, <<"ESL connection failed">>)

SendFailure(e) == HasPrefix(e, <<"ESL command failed">>)

RemoteError(e) == HasPrefix(e, <<"ESL error">>)

\* the commands of the request whose failure ended it: every failed command
\* but the B-leg dump of GetCallDetails, the fourth command of that handler
FatalFailures ==
    {i \in 1..Len(errs) : errs[i] # NoError /\ ~(req.handler = "GetCallDetails" /\ i = 4)}

\* command i is the call-list query validateCallContext sent to authorize
\* the request (GetCallDetails sends a second query of its own)
AuthorizationLookup(i) ==
    /\ req.handler \in AllCallHandlers
    /\ issued[i] = ShowCallsCmd
    /\ ~(req.handler = "GetCallDetails" /\ i = 2)

BodyHandlers == {"TransferCall", "ControlHold", "ControlRecording", "SendDTMF"}

\* C15: a request rejected for malformed input (invalid UUID, undecodable
\* body, missing required field, value outside the allowed set, invalid
\* recording path) is answered 400 and no command of any kind, the
\* call-list query included, has been sent.
C15_ValidationBeforeChannel ==
    (pc = "done" /\ resp.status = 400) => issued = <<>>

\* C15, as the handlers do it: a request answered 400 has sent no operation
\* command.  A call-addressed handler with a body checks the UUID, then
\* authorizes the call, then validates the body, so its 400 for the body
\* follows exactly one call-list query, which succeeded, found the call and
\* passed the tenant check; every other 400 is written before any command.
C15_ValidationBeforeOperation ==
    (pc = "done" /\ resp.status = 400) =>
        /\ ~OperationIssued
        /\ Len(issued) <= 1
        /\ issued # <<>> =>
              /\ req.handler \in BodyHandlers
              /\ validateUUID(req.uuid)
              /\ errs = <<NoError>>
              /\ Len(lookups) = 1
              /\ Matches(lookups[1], req.uuid) # {}
              /\ Restricted => \E i \in Matches(lookups[1], req.uuid) :
                                   lookups[1][i].accountcode \in Scope
        /\ (req.handler \notin BodyHandlers \/ ~validateUUID(req.uuid)) => issued = <<>>

\* a hold request for an authorized call was rejected for its body after the
\* call-list query had been transmitted
C15_Witness ==
    /\ pc = "done"
    /\ req.handler = "ControlHold"
    /\ resp.status = 400
    /\ sent = <<ShowCallsCmd>>
    /\ Restricted

\* the UUID that the k-th call-list query of the request was made for
LookupUUID(k) == IF req.handler = "BridgeCalls" /\ k = 2 THEN req.uuid_b ELSE req.uuid

\* the call-list queries of the request that hold no row for their UUID
NotFoundLookups == {k \in 1..Len(lookups) : Matches(lookups[k], LookupUUID(k)) = {}}

\* C16: in every call-addressed handler, when no row of the call list has
\* uuid or b_uuid equal to the requested UUID the response is 404 and no
\* operation command is sent, under Unrestricted as well as Restricted.
C16_NotFoundBeforeForbidden ==
    (req.handler \in AllCallHandlers /\ NotFoundLookups # {}) =>
        /\ pc = "done"
        /\ resp.status = 404
        /\ ~OperationIssued

\* an unrestricted request addressed a call that the non-empty call list
\* does not hold, and was answered 404
C16_Witness ==
    /\ req.handler \in CallScopedHandlers
    /\ Unrestricted
    /\ Len(lookups) = 1
    /\ lookups[1] # <<>>
    /\ NotFoundLookups = {1}
    /\ resp.status = 404
    /\ issued = <<ShowCallsCmd>>

BridgeCmd == <<"api", " ", "uuid_bridge", " ">> \o req.uuid \o <<" ">> \o req.uuid_b

\* the k-th call-list query of the request found its UUID, in a row whose
\* accountcode the scope accepts
LookupAccepted(k) ==
    /\ Matches(lookups[k], LookupUUID(k)) # {}
    /\ Restricted => \E i \in Matches(lookups[k], LookupUUID(k)) :
                         lookups[k][i].accountcode \in Scope

\* the k-th call-list query of the request found its UUID only in rows whose
\* accountcode is outside the scope
LookupForbidden(k) ==
    /\ Restricted
    /\ Matches(lookups[k], LookupUUID(k)) # {}
    /\ \A i \in Matches(lookups[k], LookupUUID(k)) : lookups[k][i].accountcode \notin Scope

\* C17: BridgeCalls sends "uuid_bridge <uuid_a> <uuid_b>" only if both
\* UUIDs were found in the call list and, under Restricted(S), both
\* accountcodes are in S; if either check fails the response is 404 or 403
\* and no uuid_bridge is sent.
C17_BridgeBothLegs ==
    req.handler = "BridgeCalls" =>
        /\ OperationIssued =>
              /\ issued = <<ShowCallsCmd, ShowCallsCmd, BridgeCmd>>
              /\ Len(lookups) = 2
              /\ LookupAccepted(1)
              /\ LookupAccepted(2)
        /\ \A k \in 1..Len(lookups) :
              /\ k \in NotFoundLookups => (resp.status = 404 /\ ~OperationIssued)
              /\ LookupForbidden(k) => (resp.status = 403 /\ ~OperationIssued)

\* a restricted bridge request whose first call is in scope was refused for
\* the tenant of its second call
C17_Witness ==
    /\ req.handler = "BridgeCalls"
    /\ Restricted
    /\ Len(lookups) = 2
    /\ LookupAccepted(1)
    /\ LookupForbidden(2)
    /\ resp.status = 403
    /\ issued = <<ShowCallsCmd, ShowCallsCmd>>

----------------------------------------------------------------------------
(* The call-detail response, checked on Spec *)

\* the call list GetCallDetails looked the call up in: its own query, made
\* after the one of validateCallContext
DetailRows == lookups[Len(lookups)]

\* C18: in a successful GetCallDetails response call_info is the row of the
\* call list whose uuid or b_uuid equals the requested UUID, aleg.uuid is
\* that row's uuid and bleg, when present, is that row's b_uuid, whatever
\* other calls the list holds and in whatever order.
C18_DetailsOfMatchedRow ==
    (req.handler = "GetCallDetails" /\ resp.kind = "details") =>
        \E i \in Matches(DetailRows, req.uuid) :
            /\ resp.call_info = DetailRows[i]
            /\ resp.aleg.uuid = DetailRows[i].uuid
            /\ resp.bleg.present => resp.bleg.uuid = DetailRows[i].b_uuid

\* GetCallDetails has sent its fourth command, the B-leg dump
BLegDumped == req.handler = "GetCallDetails" /\ pc = "done" /\ Len(issued) = 4

\* C19: when the B-leg dump of GetCallDetails fails, the response is still a
\* success and that leg is left out of it (no bleg grouping), while
\* call_info and aleg are returned.
C19_SecondLegOmitted ==
    (BLegDumped /\ errs[4] # NoError) =>
        /\ resp.status = 200
        /\ resp.kind = "details"
        /\ resp.call_info # NoRow
        /\ resp.aleg.present
        /\ ~resp.bleg.present

\* C19, as the handler does it: whatever the B-leg dump returns, the
\* response is a success with call_info and aleg, and the bleg grouping is
\* written with the B-leg's UUID; its details are null when the dump failed
\* or could not be parsed, and the dump's document otherwise.  The grouping
\* is left out only for a call whose row has an empty b_uuid, for which no
\* B-leg dump is sent.
C19_SecondLegNullDetails ==
    /\ BLegDumped =>
          /\ resp.status = 200
          /\ resp.kind = "details"
          /\ resp.call_info # NoRow
          /\ resp.aleg.present /\ ~resp.aleg.null
          /\ resp.bleg.present
          /\ resp.bleg.uuid = local.bLegUUID
          /\ errs[4] # NoError => resp.bleg.null
          /\ ~resp.bleg.null => (errs[4] = NoError /\ resp.bleg.details = DumpDoc(resp.bleg.uuid))
    /\ (req.handler = "GetCallDetails" /\ resp.kind = "details" /\ ~resp.bleg.present) =>
          /\ Len(issued) = 3
          /\ local.bLegUUID = <<>>

\* the B-leg dump was answered with an error and the response is a success
\* whose bleg grouping holds the UUID and null details
C19_Witness ==
    /\ BLegDumped
    /\ RemoteError(errs[4])
    /\ resp.status = 200
    /\ resp.bleg.present
    /\ resp.bleg.uuid = U2
    /\ resp.bleg.null

----------------------------------------------------------------------------
(* Shutdown of the session, checked on SpecESL *)

\* C20: once the Close call of the shutdown has returned, no connection
\* remains live, whatever SendCommand calls are in flight or follow.
C20_ShutdownCleanup == cpc = "returned" => live = {}

\* Close returns in this step
CloseReturns == cpc = "locked" /\ cpc' = "returned"

\* C21: Close closes and clears the connection if one is cached and does
\* nothing otherwise, so a Close that follows another finds nothing cached
\* and leaves the session as it is; no connection is closed more than once;
\* Close has no exit but the one that returns nil.
C21_CloseIdempotent ==
    /\ [][CloseReturns =>
             /\ conn' = 0
             /\ IF conn # 0
                THEN /\ live' = live \ {conn}
                     /\ closeCalls' = [closeCalls EXCEPT ![conn] = 1]
                ELSE /\ live' = live
                     /\ closeCalls' = closeCalls
             /\ UNCHANGED <<dials, tpc, tconn, tres, cb>>]_vars
    /\ [](\A h \in Handles : closeCalls[h] <= 1)
    /\ [](cpc \in {"idle", "called", "locked", "returned"})

\* Close runs again after the only connection dialed so far has been closed
\* and cleared: nothing is cached for it to close
C21_Witness ==
    /\ cpc = "locked"
    /\ conn = 0
    /\ dials = 1
    /\ closeCalls[1] = 1
    /\ 1 \notin live
    /\ \A t \in Callers : tpc[t] = "idle"

----------------------------------------------------------------------------
(* Command grammar and request validation of the handlers, checked on Spec *)

\* the originate request passed the checks that precede the context check
OriginateBodyValid == req.bodyOk /\ req.aleg # <<>>

\* C22: under Restricted(S) an OriginateCall request whose body names a
\* non-empty context outside S sends no originate command, and is answered
\* 403 once its body has passed validation.
C22_OriginateContext ==
    (req.handler = "OriginateCall" /\ Restricted /\ req.context # <<>> /\ req.context \notin Scope) =>
        /\ issued = <<>>
        /\ sent = <<>>
        /\ OriginateBodyValid => resp.status = 403

\* a restricted originate request with a valid body for a context of
\* another tenant was refused
C22_Witness ==
    /\ req.handler = "OriginateCall"
    /\ Restricted
    /\ OriginateBodyValid
    /\ req.context = TenantB
    /\ TenantB \notin Scope
    /\ resp.status = 403
    /\ issued = <<>>

\* the first row of a call list that a UUID addresses
FirstMatch(rows, u) == CHOOSE i \in Matches(rows, u) : \A j \in Matches(rows, u) : i <= j

\* the k-th call-list query of the request found its UUID, and the scope
\* accepts the accountcode of the first row that holds it
LookupAuthorized(k) ==
    /\ Matches(lookups[k], LookupUUID(k)) # {}
    /\ Restricted =>
          lookups[k][FirstMatch(lookups[k], LookupUUID(k))].accountcode \in Scope

\* the cause of the hangup request: the body's, or the default
HangupCause ==
    IF ~req.bodyOk \/ req.cause = <<>> THEN <<"NORMAL_CLEARING">> ELSE req.cause

\* C23: when the call is found and authorized, HangupCall sends exactly
\* "uuid_kill <uuid> <cause>" after the call-list query, where <cause> is
\* the body's cause, or NORMAL_CLEARING when the body is absent,
\* undecodable or has an empty cause.
C23_HangupCommand ==
    req.handler = "HangupCall" =>
        /\ OperationIssued =>
              /\ LookupAuthorized(1)
              /\ issued = <<ShowCallsCmd,
                            <<"api", " ", "uuid_kill", " ">> \o req.uuid \o <<" ">> \o HangupCause>>
        /\ (pc = "done" /\ Len(lookups) = 1 /\ LookupAuthorized(1)) => Len(issued) = 2

\* a hangup request without a decodable body was sent with the default cause
C23_Witness ==
    /\ req.handler = "HangupCall"
    /\ pc = "done"
    /\ ~req.bodyOk
    /\ sent = <<ShowCallsCmd, <<"api", " ", "uuid_kill", " ">> \o U1 \o <<" ", "NORMAL_CLEARING">>>>
    /\ resp.status = 200

\* the leg flag of the transfer request: for bleg and both in any case
TransferFlag ==
    IF ToLower(req.leg) = <<"bleg">> THEN <<"-bleg", " ">>
    ELSE IF ToLower(req.leg) = <<"both">> THEN <<"-both", " ">>
    ELSE <<>>

\* dialplan and context of the transfer request: a pair, for a non-empty
\* context only
TransferPair ==
    IF req.context = <<>> THEN <<>>
    ELSE <<" ">> \o (IF req.dialplan = <<>> THEN <<"XML">> ELSE req.dialplan)
               \o <<" ">> \o req.context

\* C24: TransferCall sends "uuid_transfer <id> [-bleg|-both] <destination>
\* [<dialplan> <context>]": the flag exactly for leg bleg or both in any
\* case, dialplan and context only as a pair and only for a non-empty
\* context, the dialplan being XML when omitted; without a context a
\* supplied dialplan is not sent.
C24_TransferGrammar ==
    (req.handler = "TransferCall" /\ OperationIssued) =>
        /\ issued = <<ShowCallsCmd,
                      <<"api", " ", "uuid_transfer", " ">> \o req.uuid \o <<" ">>
                          \o TransferFlag \o req.destination \o TransferPair>>
        /\ ToLower(IF req.leg = <<>> THEN <<"aleg">> ELSE req.leg)
               \in {<<"aleg">>, <<"bleg">>, <<"both">>}
        /\ req.destination # <<>>

\* a transfer of both legs with a dialplan and no context was sent without
\* the dialplan
C24_Witness ==
    /\ req.handler = "TransferCall"
    /\ req.leg = <<"Both">>
    /\ req.dialplan = <<"LUA">>
    /\ req.context = <<>>
    /\ sent = <<ShowCallsCmd,
                <<"api", " ", "uuid_transfer", " ">> \o U1 \o <<" ", "-both", " ", "1000">>>>
    /\ resp.status = 200

\* the space-separated words of the originate command the request issued:
\* api, originate, the variable list with the A-leg, the B-leg, and then
\* the positional arguments
OriginateWords == Split(issued[1], " ")

\* the k-th positional argument after the B-leg, empty when the command
\* ends before it: 1 dialplan, 2 context, 3 caller name, 4 caller number,
\* 5 timeout
Positional(k) == IF Len(OriginateWords) >= 4 + k THEN OriginateWords[4 + k] ELSE <<>>

\* the variable list of the originate command names the caller-id variable
InVariableList(name) == Contains(OriginateWords[3], <<name>>)

\* C25: OriginateCall builds "originate", the optional brace-delimited
\* variable list, the A-leg, the B-leg ("&park()" when bleg is omitted) and
\* then those of dialplan, context, caller name, caller number and timeout
\* that are supplied, each in its own positional slot in that order; a
\* caller name or number is emitted positionally only if the variable list
\* does not express it.
C25_OriginateGrammar ==
    (req.handler = "OriginateCall" /\ issued # <<>>) =>
        /\ Len(OriginateWords) >= 4
        /\ OriginateWords[1] = <<"api">>
        /\ OriginateWords[2] = <<"originate">>
        /\ OriginateWords[4] = (IF req.bleg = <<>> THEN <<"&park()">> ELSE req.bleg)
        /\ req.dialplan # <<>> => Positional(1) = req.dialplan
        /\ req.context # <<>> => Positional(2) = req.context
        /\ (req.caller_id_name # <<>> /\ ~InVariableList("origination_caller_id_name"))
              => Positional(3) = req.caller_id_name
        /\ (req.caller_id_number # <<>> /\ ~InVariableList("origination_caller_id_number"))
              => Positional(4) = req.caller_id_number
        /\ req.timeout_sec > 0 => Positional(5) = <<ToString(req.timeout_sec)>>

\* the callcenter_config command of a tier or agent write, built from the
\* request
TierDelCmd == CCCommand(<<"tier", " ", "del", " ">> \o req.queue \o <<" ">> \o req.agent)

TierSetCmd ==
    CCCommand(<<"tier", " ", "set", " ">> \o req.key \o <<" ">> \o req.queue \o <<" ">>
                  \o req.agent \o <<" ", "'">> \o req.value \o <<"'">>)

AgentSetCmd ==
    CCCommand(<<"agent", " ", "set", " ">> \o req.key \o <<" ">> \o req.agent
                  \o <<" ", "'">> \o req.value \o <<"'">>)

\* the keys a tier set and an agent set accept
TierKeys == {<<"state">>, <<"level">>, <<"position">>}

AgentKeys ==
    {<<"status">>, <<"state">>, <<"contact">>, <<"type">>, <<"max_no_answer">>,
     <<"wrap_up_time">>, <<"reject_delay_time">>, <<"busy_delay_time">>, <<"ready_time">>}

\* C26: CCDeleteTier sends exactly "tier del <queue> <agent>", CCSetTier
\* exactly "tier set <key> <queue> <agent> '<value>'" and CCSetAgent exactly
\* "agent set <key> <agent> '<value>'"; a set request whose key is not one of
\* the fixed keys (tier: state, level, position; agent: the nine agent keys)
\* is answered 400 and sends nothing.
C26_TierAgentCommands ==
    /\ (req.handler = "CCDeleteTier" /\ issued # <<>>) => issued = <<TierDelCmd>>
    /\ (req.handler = "CCSetTier" /\ issued # <<>>) => issued = <<TierSetCmd>>
    /\ (req.handler = "CCSetAgent" /\ issued # <<>>) => issued = <<AgentSetCmd>>
    /\ (req.handler = "CCSetTier" /\ req.key \notin TierKeys) =>
           (resp.status = 400 /\ issued = <<>>)
    /\ (req.handler = "CCSetAgent" /\ req.key \notin AgentKeys) =>
           (resp.status = 400 /\ issued = <<>>)

\* a tier set with the key "level" was sent for a queue of the caller's
\* tenant
C26_Witness ==
    /\ req.handler = "CCSetTier"
    /\ req.key = <<"level">>
    /\ Restricted
    /\ sent = <<TierSetCmd>>
    /\ resp.status = 200

\* the allowed tenants of the scope, in the order of their declaration in
\* the header, separated by ", "
AllowedList == Join(ScopeTokens(hdr), <<",", " ">>)

\* C27: when a queue or tier operation is denied under Restricted(S), the
\* message of the 403 response names the entity, the tenant resolved from its
\* name (what follows the first "@") and exactly the allowed tenants of S in
\* the order of their declaration.
C27_DenialMessage ==
    (req.handler \in QueueTierHandlers /\ resp.status = 403) =>
        /\ Restricted
        /\ AfterFirstAt(req.queue) \notin Scope
        /\ resp.message =
               <<"Queue", " ", "'">> \o req.queue
                   \o <<"'", " ", "belongs to domain", " ", "'">> \o AfterFirstAt(req.queue)
                   \o <<"'", " ", "which is not in your allowed contexts", ":", " ", "[">>
                   \o AllowedList \o <<"]">>

\* a tier deletion on a queue of tenant ab under the scope declared as "a,b"
\* was denied with a message that names ab and lists a, b
C27_Witness ==
    /\ req.handler = "CCDeleteTier"
    /\ hdr = <<"a", ",", "b">>
    /\ req.queue = QueueAB
    /\ resp.status = 403
    /\ resp.message = <<"Queue", " ", "'", "q2", "@", "a", "b", "'", " ", "belongs to domain", " ",
                        "'", "a", "b", "'", " ", "which is not in your allowed contexts", ":", " ",
                        "[", "a", ",", " ", "b", "]">>

\* the reply GetStatus received is a JSON object with the key "response"
HasResponseKey == local.fsResponse.kind = "json" /\ local.fsResponse.doc.response

\* the value of the key "response" in the reply GetStatus received
ResponseValue == local.fsResponse.doc.value

StatusAnswered == req.handler = "GetStatus" /\ errs = <<NoError>>

\* C28: GetStatus sends one JSON-wrapped status query; when the reply is a
\* JSON object with the key "response" it returns success with data equal to
\* exactly that key's value; when the reply is not JSON or lacks "response"
\* it returns an error response and no data.
C28_StatusData ==
    /\ (req.handler = "GetStatus" /\ pc = "done") => issued = <<StatusCmd>>
    /\ (StatusAnswered /\ HasResponseKey) =>
           (resp.status = 200 /\ resp.kind = "data" /\ resp.data = ResponseValue)
    /\ (StatusAnswered /\ ~HasResponseKey) =>
           (resp.kind = "error" /\ resp.status >= 400 /\ resp.data = JNull)

----------------------------------------------------------------------------
(* Properties of the reply parsers, checked on SpecParse *)

\* the lines of the input that are neither blank nor an acknowledgement,
\* trimmed, in input order
KeptLines ==
    SelectSeq(TrimAll(Split(input, "\n")), LAMBDA l : l # <<>> /\ ~HasPrefix(l, <<"+OK">>))

\* the fields of a line
Fields(l) == TrimAll(Split(l, "|"))

Header == Fields(KeptLines[1])

\* the i-th field of a row, empty when the row has fewer fields
FieldAt(l, i) == IF i <= Len(Fields(l)) THEN Fields(l)[i] ELSE <<>>

\* one mapping per line after the header, in input order, keyed by exactly
\* the header's field names
OneRowPerLine ==
    /\ Len(output.rows) = (IF KeptLines = <<>> THEN 0 ELSE Len(KeptLines) - 1)
    /\ \A k \in 1..Len(output.rows) : DOMAIN output.rows[k] = Range(Header)

\* C29: ParsePipeDelimited returns a sequence for every input; the first
\* line that is neither blank nor starts with "+OK" is the header, and every
\* later such line yields exactly one mapping, in input order, that has
\* exactly the header's field names as keys and the i-th field as the value
\* of the i-th header name, the empty string when the row has no i-th field;
\* fields beyond the header are dropped.
C29_TableParser ==
    output.fn = "ParsePipeDelimited" =>
        /\ OneRowPerLine
        /\ \A k \in 1..Len(output.rows) : \A i \in 1..Len(Header) :
               output.rows[k][Header[i]] = FieldAt(KeptLines[k + 1], i)

\* C29 as the code has it: the i-th field is the value of the i-th header
\* name unless the name occurs again later in the header; a name that
\* occurs more than once has the field at its last occurrence as value.
C29_TableParserLastWins ==
    output.fn = "ParsePipeDelimited" =>
        /\ OneRowPerLine
        /\ \A k \in 1..Len(output.rows) : \A i \in 1..Len(Header) :
               (\A j \in (i + 1)..Len(Header) : Header[j] # Header[i]) =>
                   output.rows[k][Header[i]] = FieldAt(KeptLines[k + 1], i)

\* the header a|b|c and the row 1|2 gave the one mapping a:1, b:2, c:""
C29_Witness ==
    /\ input = <<"a", "|", "b", "|", "c", "\n", "1", "|", "2">>
    /\ output.fn = "ParsePipeDelimited"
    /\ Len(output.rows) = 1
    /\ DOMAIN output.rows[1] = {<<"a">>, <<"b">>, <<"c">>}
    /\ output.rows[1][<<"a">>] = <<"1">>
    /\ output.rows[1][<<"b">>] = <<"2">>
    /\ output.rows[1][<<"c">>] = <<>>

\* l is an optional sign followed by digits
IsInteger(l) ==
    LET ds == IF l # <<>> /\ l[1] \in {"+", "-"} THEN Tail(l) ELSE l
    IN  ds # <<>> /\ \A i \in 1..Len(ds) : ds[i] \in Digits

IntegerOf(l) ==
    IF l[1] = "-" THEN 0 - DecVal(Tail(l))
    ELSE IF l[1] = "+" THEN DecVal(Tail(l))
    ELSE DecVal(l)

IntegerLines == SelectSeq(KeptLines, IsInteger)

\* C30: ParsePlainCount scans the lines top to bottom, skips blank lines and
\* lines starting with "+OK", and returns the value of the first remaining
\* line that parses as an integer, whatever lines that are not integers come
\* before it; it fails if and only if there is no such line.
C30_CountParser ==
    output.fn = "ParsePlainCount" =>
        /\ output.ok <=> IntegerLines # <<>>
        /\ output.ok => output.n = IntegerOf(IntegerLines[1])

\* the count 12 was found after an acknowledgement and a line of text
C30_Witness ==
    /\ input = <<"+OK", "\n", "x", "\n", "1", "2">>
    /\ output.fn = "ParsePlainCount"
    /\ output.ok
    /\ output.n = 12

\* what follows the first "domain_name=" in the input
AfterKey ==
    SubSeq(input, Index(input, DomainNameKey) + Len(DomainNameKey), Len(input))

\* v is what AfterKey holds up to, and not including, its first character in
\* delims, or all of it when it has none
ValueUpTo(v, delims) ==
    /\ HasPrefix(AfterKey, v)
    /\ \A i \in 1..Len(v) : v[i] \notin delims
    /\ Len(v) < Len(AfterKey) => AfterKey[Len(v) + 1] \in delims

\* C31: ExtractDomainFromContact returns the empty string when the key
\* domain_name is absent, and otherwise the characters following
\* "domain_name=" up to, and not including, the next delimiter among "{",
\* ",", space, "}", single quote and double quote, or up to the end of the
\* string when no delimiter follows.
C31_ContactDomain ==
    output.fn = "ExtractDomainFromContact" =>
        IF ~Contains(input, DomainNameKey) THEN output.domain = <<>>
        ELSE ValueUpTo(output.domain, {"{", ",", " ", "}", "'", "\""})

\* C31 as the code has it: the delimiters are ",", space, "}", single quote
\* and double quote; an opening brace does not end the value.
C31_ContactDomainClosingBrace ==
    output.fn = "ExtractDomainFromContact" =>
        IF ~Contains(input, DomainNameKey) THEN output.domain = <<>>
        ELSE ValueUpTo(output.domain, {",", " ", "}", "'", "\""})

\* the value a was cut at the double quote that follows it
C31_Witness ==
    /\ input = <<"{">> \o DomainNameKey \o <<"a", "\"", "b">>
    /\ output.fn = "ExtractDomainFromContact"
    /\ output.domain = <<"a">>

----------------------------------------------------------------------------
(* Properties of the bearer-token gate, checked on SpecBearer *)

\* the remote addresses whose host is 127.0.0.1, ::1 or localhost
LocalAddrs ==
    { <<"127.0.0.1", ":", "5000">>,
      <<"[", ":", ":", "1", "]", ":", "5000">>,
      <<"localhost", ":", "5000">>,
      <<"127.0.0.1">>,
      <<":", ":", "1">> }

\* the Authorization header is "Bearer <t>" for a configured token t
BearsConfiguredToken ==
    \E i \in 1..Len(allowedTokens) : authorization = <<"Bearer", " ">> \o allowedTokens[i]

GateDecided == pc \in {"handler", "done"}

\* C32: a request from a non-localhost address, when at least one token is
\* configured, reaches the handler if and only if its Authorization header
\* is "Bearer <t>" with t one of the configured tokens, and is otherwise
\* answered 401 without the handler running; requests from localhost and
\* all requests when no token is configured reach the handler.
C32_BearerGate ==
    GateDecided =>
        /\ (remoteAddr \in LocalAddrs \/ allowedTokens = <<>>) => pc = "handler"
        /\ (remoteAddr \notin LocalAddrs /\ allowedTokens # <<>>) =>
               (pc = "handler" <=> BearsConfiguredToken)
        /\ pc = "done" => resp.status = 401
        /\ pc = "handler" => resp = NoResp

\* a remote request with a token that is not configured was answered 401
C32_Witness ==
    /\ remoteAddr = <<"10.0.0.5", ":", "5000">>
    /\ allowedTokens = <<<<"t1">>, <<"t2">>>>
    /\ authorization = <<"Bearer", " ", "t3">>
    /\ pc = "done"
    /\ resp.status = 401

----------------------------------------------------------------------------
(* Retry, sequencing and termination of the session, checked on SpecESL    *)
(* and on Spec                                                             *)

\* the order of the positions inside one SendCommand invocation
Stage(p) ==
    CASE p = "idle" -> 0
      [] p = "getConnection" -> 1
      [] p = "locked" -> 2
      [] p = "dialing" -> 3
      [] p = "send" -> 4
      [] p = "sending" -> 5
      [] p = "failed" -> 6
      [] p = "clearing" -> 7
      [] p = "returned" -> 8

\* caller t moves forward inside its invocation, or starts the next one
\* after the previous has returned
MovesForward(t) ==
    tpc'[t] # tpc[t] =>
        \/ Stage(tpc[t]) < Stage(tpc'[t])
        \/ tpc[t] = "returned" /\ tpc'[t] = "idle"

\* a dial is attempted only by a caller entering eslgo.Dial, once
OneDialPerAttempt ==
    dials' # dials =>
        /\ dials' = dials + 1
        /\ \E t \in Callers :
              tpc[t] = "locked" /\ tpc'[t] = "dialing"
                  /\ \A u \in Callers \ {t} : tpc'[u] = tpc[u]

\* a dial of caller t that does not give a connection returns the error at
\* once, and a failed transmission only invalidates and returns the error
FailureReturnsError(t) ==
    /\ (tpc[t] = "dialing" /\ tpc'[t] # "dialing") =>
           \/ tpc'[t] = "send" /\ tconn'[t] \in live'
           \/ tpc'[t] = "returned" /\ tres'[t] = "ESL connection failed"
    /\ (tpc[t] = "failed" /\ tpc'[t] # "failed") => tpc'[t] = "clearing"
    /\ (tpc[t] = "clearing" /\ tpc'[t] # "clearing") =>
           (tpc'[t] = "returned" /\ tres'[t] = "ESL command failed" /\ dials' = dials)

C33_NoReissue ==
    \A i \in 1..Len(errs) : errs[i] # NoError => \A j \in (i + 1)..Len(issued) : issued[j] # issued[i]

\* the row of its call list that GetCallDetails took the legs from
DetailRow == DetailRows[FirstMatch(DetailRows, req.uuid)]

\* the commands of GetCallDetails in their order: the call-list query of the
\* authorization, the handler's own call-list query, the A-leg dump and the
\* B-leg dump
DetailCommand(k) ==
    CASE k \in {1, 2} -> ShowCallsCmd
      [] k = 3 -> DumpCmd(DetailRow.uuid)
      [] k = 4 -> DumpCmd(DetailRow.b_uuid)

\* the A-leg dump was answered without error and with a JSON document
ALegDumpParsed == errs[3] = NoError /\ local.aLegDetails = DumpDoc(DetailRow.uuid)

\* C34: within one GetCallDetails invocation the commands are issued one
\* after another, each after the reply to the previous one, in the order
\* call-list query, A-leg dump, B-leg dump; the B-leg dump is issued only if
\* the matching row has a non-empty b_uuid and only after the A-leg dump
\* succeeded and parsed; a failed A-leg dump fails the request and no B-leg
\* dump is issued.
C34_SequentialDetails ==
    req.handler = "GetCallDetails" =>
        /\ Len(errs) = Len(issued)
        /\ Len(issued) <= 4
        /\ \A k \in 1..Len(issued) :
              /\ issued[k] = DetailCommand(k)
              /\ k >= 2 => errs[k - 1] = NoError
        /\ Len(issued) = 4 => (DetailRow.b_uuid # <<>> /\ ALegDumpParsed)
        /\ (Len(issued) >= 3 /\ errs[3] # NoError) =>
              (Len(issued) = 3 /\ pc = "done" /\ resp.kind = "error" /\ resp.status = 500)

\* all four commands were issued and the response holds both legs
C34_Witness ==
    /\ req.handler = "GetCallDetails"
    /\ Len(issued) = 4
    /\ issued[3] # issued[4]
    /\ errs = <<NoError, NoError, NoError, NoError>>
    /\ resp.status = 200
    /\ resp.bleg.present /\ ~resp.bleg.null

\* the failure path of caller t runs: it closes and clears under the mutex
FailurePathRuns(t) == tpc[t] = "clearing" /\ tpc'[t] = "returned"

\* the disconnect callback of handle h runs under the mutex
CallbackRuns(h) == cb[h] = "locked" /\ cb'[h] = "done"

\* the step closes or clears no connection other than handle c
OnlyTouches(c) ==
    /\ live \ live' \subseteq {c}
    /\ conn' # conn => conn = c

\* C35: when the transmission of a command on connection handle c fails, or
\* the disconnect callback registered for c fires, only c is closed or
\* cleared; a different, newer connection that another caller has cached in
\* the meantime is not closed and not cleared from the session.
C35_HandleSpecificInvalidation ==
    [][/\ \A t \in Callers : FailurePathRuns(t) => OnlyTouches(tconn[t])
       /\ \A h \in Handles : CallbackRuns(h) => OnlyTouches(h)]_vars

\* C36: under Restricted(S), OriginateCall checks the authorization only
\* when the body's context is non-empty; a request without a context,
\* whatever its A-leg, B-leg or channel variables, is not answered 403 and
\* its originate command is sent.
C36_OriginateWithoutContext ==
    (req.handler = "OriginateCall" /\ Restricted /\ req.context = <<>>) =>
        /\ resp.status # 403
        /\ OriginateBodyValid =>
              /\ Len(issued) = 1
              /\ Split(issued[1], " ")[2] = <<"originate">>
              /\ errs = <<NoError>> => (sent = issued /\ resp.status = 200)

\* a restricted originate without a context and with channel variables was
\* sent and answered 200
C36_Witness ==
    /\ req.handler = "OriginateCall"
    /\ Restricted
    /\ req.context = <<>>
    /\ req.channel_variables # <<>>
    /\ Len(sent) = 1
    /\ resp.status = 200

\* the transfer request's body passes the handler's validation
TransferBodyValid ==
    /\ req.bodyOk
    /\ req.destination # <<>>
    /\ ToLower(IF req.leg = <<>> THEN <<"aleg">> ELSE req.leg) \in {<<"aleg">>, <<"bleg">>, <<"both">>}

\* C37: under Restricted(S), whether TransferCall sends its command depends
\* only on the call's accountcode being in S (for a request that is valid
\* otherwise); the destination context is never compared with S, so a
\* transfer of an in-scope call into a context outside S is sent.
C37_TransferIgnoresDestination ==
    (req.handler = "TransferCall" /\ Restricted /\ pc = "done") =>
        (OperationIssued <=>
            (Len(lookups) = 1 /\ LookupAuthorized(1) /\ TransferBodyValid))

\* a restricted transfer of an in-scope call into a context outside the scope
\* was sent and answered 200
C37_Witness ==
    /\ req.handler = "TransferCall"
    /\ Restricted
    /\ req.context # <<>>
    /\ req.context \notin Scope
    /\ Len(sent) = 2
    /\ Split(sent[2], " ")[2] = <<"uuid_transfer">>
    /\ resp.status = 200

\* a non-empty scope declaration made of commas and white space only
BlankDeclaration == hdr # <<>> /\ \A i \in 1..Len(hdr) : hdr[i] \in {",", " "}

\* the request reached the tenant check of its handler: its call was found by
\* the lookup, respectively its body passed the validation that precedes the
\* check
TenantCheckReached ==
    \/ /\ req.handler \in AllCallHandlers
       /\ Len(lookups) >= 1
       /\ Matches(lookups[1], LookupUUID(1)) # {}
    \/ req.handler \in QueueTierHandlers /\ ~TierBodyRejected
    \/ req.handler \in AgentWriteHandlers /\ ~AgentBodyRejected
    \/ req.handler = "OriginateCall" /\ OriginateBodyValid /\ req.context # <<>>

\* C38: a non-empty scope declaration without a non-empty token and without
\* a wildcard yields Restricted with the empty set, never Unrestricted; under
\* Restricted with the empty set no tenant-checked call, queue, tier or agent
\* operation is issued, a request that reaches its tenant check is answered
\* 403 (400 for an agent write without domain), and every filtered list and
\* the queue count are empty, respectively zero.
C38_EmptyScopeDeniesAll ==
    /\ (auth.Set /\ BlankDeclaration) => (Restricted /\ Scope = {})
    /\ (Restricted /\ Scope = {}) =>
          /\ req.handler \in AllCallHandlers \cup QueueTierHandlers \cup AgentWriteHandlers =>
                ~OperationIssued
          /\ (req.handler = "OriginateCall" /\ req.context # <<>>) => issued = <<>>
          /\ (TenantCheckReached /\ pc = "done") =>
                resp.status = IF req.handler \in AgentWriteHandlers /\ req.domain = <<>>
                              THEN 400 ELSE 403
          /\ (req.handler \in ListHandlers /\ resp.kind = "list") =>
                (resp.rows = <<>> /\ resp.row_count = 0)
          /\ (req.handler = "CCCountQueues" /\ resp.kind = "count") => resp.count = 0

\* under a declaration of commas only, a call that the lookup found was
\* refused with 403 and nothing but the lookup was issued
C38_Witness ==
    /\ hdr = <<",">>
    /\ Restricted
    /\ Scope = {}
    /\ req.handler = "HangupCall"
    /\ Len(lookups) = 1
    /\ Matches(lookups[1], req.uuid) # {}
    /\ issued = <<ShowCallsCmd>>
    /\ resp.status = 403

\* under a declaration of commas and white space only, a list reply with rows
\* was answered with an empty list
C38_WitnessList ==
    /\ BlankDeclaration
    /\ req.handler \in ListHandlers
    /\ resp.kind = "list"
    /\ resp.rows = <<>>
    /\ Len(ParsePipeDelimited(local.response)) >= 2

----------------------------------------------------------------------------
(* Properties of the reply classification, checked on Spec *)

ErrMarker == <<"-ERR">>

RemoteErrorPrefix == <<"ESL error", ":", " ">>

\* the error of the i-th command reports a remote error
IsRemoteError(i) == HasPrefix(errs[i], RemoteErrorPrefix)

\* HangupCall has sent its command and answered
HangupAnswered == req.handler = "HangupCall" /\ pc = "done" /\ Len(issued) = 2

\* C39: SendCommand reports a remote error only for a reply whose Reply-Text
\* starts with -ERR (the error carries that Reply-Text); a reply without
\* that prefix whose body starts with -ERR is returned as a successful
\* result, the body, and HangupCall answers it with 200.
C39_ErrorMarkerInStatusLine ==
    /\ \A i \in 1..Len(errs) :
          IsRemoteError(i) =>
              HasPrefix(SubSeq(errs[i], Len(RemoteErrorPrefix) + 1, Len(errs[i])), ErrMarker)
    /\ HangupAnswered =>
          /\ resp.status = 200 <=> errs[2] = NoError
          /\ resp.status = 502 <=> IsRemoteError(2)
          /\ IsRemoteError(2) =>
                errs[2] = RemoteErrorPrefix \o local.fsResponse.text
          /\ (errs[2] = NoError /\ HasPrefix(local.fsResponse.text, ErrMarker)) =>
                resp.kind = "message"

\* a hangup whose reply body starts with -ERR under a Reply-Text without the
\* marker was returned without error and answered 200
C39_Witness ==
    /\ HangupAnswered
    /\ HasPrefix(local.fsResponse.text, ErrMarker)
    /\ errs[2] = NoError
    /\ resp.status = 200

----------------------------------------------------------------------------
(* Termination of the session's operations, checked on SpecESLFair *)

\* caller t is inside SendCommand
InSendCommand(t) ==
    tpc[t] \in {"getConnection", "locked", "dialing", "send", "sending", "failed", "clearing"}

\* the positions at which a goroutine holds the mutex
HoldsAsCaller(t) == tpc[t] \in {"locked", "dialing", "clearing"}

\* every holder of the mutex is between its Lock and its Unlock: the mutex
\* is released on every path out of them, and is not held by a caller whose
\* command is being transmitted or who waits in Lock
MutexDiscipline ==
    /\ \A t \in Callers : mu = <<"caller", t>> <=> HoldsAsCaller(t)
    /\ \A h \in Handles : mu = <<"callback", h>> <=> cb[h] = "locked"
    /\ mu = <<"closer", 0>> <=> cpc = "locked"

\* C40: under fair scheduling, with every dial and every transmission
\* returning, every SendCommand invocation, every Close invocation and every
\* disconnect callback eventually returns; the session mutex is released on
\* every path, is not held by a caller while its command is transmitted, and
\* is never acquired by a goroutine that holds it.
C40_SessionTerminates ==
    /\ []MutexDiscipline
    /\ \A t \in Callers : InSendCommand(t) ~> tpc[t] = "returned"
    /\ \A h \in Handles : cb[h] = "fired" ~> cb[h] = "done"
    /\ cpc = "called" ~> cpc = "returned"

\* a caller waits for the mutex on its failure path while another caller
\* dials with the mutex held and Close waits as well
C40_Witness ==
    /\ \E t \in Callers : tpc[t] = "failed"
    /\ \E t \in Callers : tpc[t] = "dialing" /\ mu = <<"caller", t>>
    /\ cpc = "called"

====
